---- MODULE Spec2Model ----
(***************************************************************************)
(* A model of the multi-queue write-ahead log of quickwit-oss/recordlog:   *)
(* the MultiRecordLog facade (multi_record_log.rs), the in-memory queues   *)
(* (mem/queue.rs, mem/queues.rs), the rolling writer and reader            *)
(* (rolling/writer.rs, rolling/reader.rs), the directory with its          *)
(* reference-counted FileNumber chain (rolling/directory.rs, position.rs)  *)
(* and the log-record codec (rolling/record.rs).                           *)
(*                                                                         *)
(* In this specification a WAL file is the sequence of the logical records *)
(* written to it (each one the bytes produced by Record::serialize); the   *)
(* frames that carry a record are counted (HEADER_LEN bytes each) but not  *)
(* laid out, since every record of the model fits in one FULL frame.       *)
(***************************************************************************)
EXTENDS Integers, Sequences, FiniteSets, TLC

(***************************************************************************)
(* Bounds of the model.                                                    *)
(***************************************************************************)
\* Number of calls that write to the directory explored.
MaxWrites == 6

\* The queue names callers use, as UTF-8 bytes ("a" and "b").
QueueA == <<97>>
QueueB == <<98>>
QueueNames == {QueueA, QueueB}

\* The payloads callers append: an empty one and a one-byte one.
Payloads == {<<>>, <<7>>}

\* The positions callers supply to append_record and truncate.
Positions == 0..1

(***************************************************************************)
(* Option<T>: None is the empty sequence, Some(x) the one-element one.     *)
(***************************************************************************)
None == <<>>
Some(x) == <<x>>
IsSome(o) == o # <<>>
Unwrap(o) == o[1]

\* `let v = ...;` followed by Body, which reads v.
Let(v, Body(_)) == Body(v)

(***************************************************************************)
(* Program constants.                                                      *)
(***************************************************************************)
\* frame::HEADER_LEN: checksum (4) + length (2) + frame type (1).
HEADER_LEN == 7

\* rolling/writer.rs LIMIT_NUM_BYTES is 50_000_000; the model scales it
\* down to the size of two minimal records so that files roll.
LIMIT_NUM_BYTES == 2 * (HEADER_LEN + 12)

(***************************************************************************)
(* rolling/record.rs: the log-record codec.                                *)
(***************************************************************************)
RECURSIVE to_le_bytes(_, _)
\* n.to_le_bytes() for a k-byte unsigned integer.
to_le_bytes(n, k) ==
    IF k = 0 THEN <<>> ELSE <<n % 256>> \o to_le_bytes(n \div 256, k - 1)

RECURSIVE from_le_bytes(_)
\* uNN::from_le_bytes(bytes).
from_le_bytes(bytes) ==
    IF bytes = <<>> THEN 0 ELSE Head(bytes) + 256 * from_le_bytes(Tail(bytes))

\* RecordType as u8 (DeleteQueue is no variant of the enum in record.rs).
RecordTypeCode(t) ==
    CASE t = "AppendRecord" -> 0
      [] t = "Truncate" -> 1
      [] t = "Touch" -> 2

\* RecordType::try_from(code): Some(type) or None.
RecordType_try_from(code) ==
    CASE code = 0 -> Some("AppendRecord")
      [] code = 1 -> Some("Truncate")
      [] code = 2 -> Some("Touch")
      [] OTHER -> None

\* fn serialize(record_type, position, queue, payload, buffer).
serialize(code, position, queue, payload) ==
    <<code>> \o to_le_bytes(position, 8) \o to_le_bytes(Len(queue), 2)
        \o queue \o payload

\* The tag the DeleteQueue record is written with (spec section 3).
DeleteQueueCode == 3

\* Record::serialize.  The DeleteQueue arm is not in record.rs; the facade
\* writes that record, and the data model gives its tag.
Record_serialize(record) ==
    CASE record.type = "AppendRecord" ->
            serialize(RecordTypeCode("AppendRecord"), record.position,
                      record.queue, record.payload)
      [] record.type = "Truncate" ->
            serialize(RecordTypeCode("Truncate"), record.position,
                      record.queue, <<>>)
      [] record.type = "Touch" ->
            serialize(RecordTypeCode("Touch"), record.position,
                      record.queue, <<>>)
      [] record.type = "DeleteQueue" ->
            serialize(DeleteQueueCode, record.position, record.queue, <<>>)

\* std::str::from_utf8 on the bytes of the model: ASCII only.
from_utf8_ok(bytes) == \A i \in 1..Len(bytes) : bytes[i] < 128

\* Record::deserialize(buffer): [res |-> "Some", record |-> r], [res |->
\* "None"], or [res |-> "Panic"] where an index or a slice is out of range.
Record_deserialize(buffer) ==
    IF Len(buffer) = 0 THEN [res |-> "Panic"]
    ELSE LET enum_tag == RecordType_try_from(buffer[1]) IN
    IF enum_tag = None THEN [res |-> "None"]
    ELSE IF Len(buffer) < 8 THEN [res |-> "None"]
    ELSE IF Len(buffer) < 11 THEN [res |-> "Panic"]
    ELSE LET position == from_le_bytes(SubSeq(buffer, 2, 9))
             queue_len == from_le_bytes(SubSeq(buffer, 10, 11))
         IN
    IF Len(buffer) < 11 + queue_len THEN [res |-> "Panic"]
    ELSE LET queue == SubSeq(buffer, 12, 11 + queue_len)
             payload == SubSeq(buffer, 12 + queue_len, Len(buffer))
         IN
    IF ~from_utf8_ok(queue) THEN [res |-> "None"]
    ELSE CASE Unwrap(enum_tag) = "AppendRecord" ->
                [res |-> "Some",
                 record |-> [type |-> "AppendRecord", position |-> position,
                             queue |-> queue, payload |-> payload]]
           [] Unwrap(enum_tag) = "Truncate" ->
                [res |-> "Some",
                 record |-> [type |-> "Truncate", position |-> position,
                             queue |-> queue]]
           [] Unwrap(enum_tag) = "Touch" ->
                [res |-> "Some",
                 record |-> [type |-> "Touch", position |-> position,
                             queue |-> queue]]

(***************************************************************************)
(* mem/queue.rs: MemQueue.  A queue is the record                          *)
(*   [concatenated_records, start_position, record_metas]                  *)
(* and a RecordMeta is [start_offset, file_number]; start_offset is the    *)
(* 0-based offset of the record in concatenated_records.                   *)
(***************************************************************************)
\* The width of u64 and i64, scaled down from 64 bits.
U64_BITS == 5
U64_MAX == 2^U64_BITS - 1
I64_MIN == -(2^(U64_BITS - 1))
I64_MAX == 2^(U64_BITS - 1) - 1

\* `x as i64` for a u64 x.
as_i64(x) == IF x > I64_MAX THEN x - 2^U64_BITS ELSE x

\* The i64 a wrapping operation gives for the exact result n.
wrapping_i64(n) == as_i64(n % 2^U64_BITS)

\* MemQueue::default().
MemQueue_default ==
    [concatenated_records |-> <<>>, start_position |-> 0, record_metas |-> <<>>]

\* MemQueue::with_next_position(next_position).
with_next_position(next_position) ==
    [concatenated_records |-> <<>>, start_position |-> next_position,
     record_metas |-> <<>>]

\* MemQueue::first_retained_position(): the file of the first record.
first_retained_position(mq) ==
    IF mq.record_metas = <<>> THEN None
    ELSE Some(mq.record_metas[1].file_number)

\* MemQueue::is_empty().
is_empty(mq) == mq.record_metas = <<>>

\* MemQueue::next_position().
next_position(mq) == mq.start_position + Len(mq.record_metas)

\* A faulty MemQueue::append_record that acknowledges the record at dist = 0
\* but does not push it; C2 must tell it from the code.
MemQueue_append_record_no_push(mq, file_number, target_position_opt, payload) ==
    LET target_position ==
            IF IsSome(target_position_opt) THEN Unwrap(target_position_opt)
            ELSE mq.start_position + Len(mq.record_metas)
        mq1 == IF mq.start_position = 0 /\ mq.record_metas = <<>>
               THEN [mq EXCEPT !.start_position = target_position]
               ELSE mq
        dist == mq1.start_position + Len(mq1.record_metas) - target_position
    IN  CASE dist <= -1 -> [res |-> "Future", mq |-> mq1]
          [] dist = 0 -> [res |-> "OkSome", mq |-> mq1]
          [] dist = 1 -> [res |-> "OkNone", mq |-> mq1]
          [] dist >= 2 -> [res |-> "Past", mq |-> mq1]

\* MemQueue::append_record(file_number, target_position_opt, payload):
\* [res, mq] with res one of "OkSome", "OkNone", "Future", "Past", or
\* "Panic".  dist is the difference of the two positions cast to i64; when
\* it does not fit in an i64 the subtraction panics in a build with
\* overflow checks and wraps in a build without.
MemQueue_append_record_build(mq, file_number, target_position_opt, payload, overflow_checks) ==
    LET target_position ==
            IF IsSome(target_position_opt) THEN Unwrap(target_position_opt)
            ELSE next_position(mq)
        mq1 == IF mq.start_position = 0 /\ mq.record_metas = <<>>
               THEN [mq EXCEPT !.start_position = target_position]
               ELSE mq
        difference == as_i64(next_position(mq1)) - as_i64(target_position)
        dist == wrapping_i64(difference)
        record_meta == [start_offset |-> Len(mq1.concatenated_records),
                        file_number |-> file_number]
    IN  IF overflow_checks /\ difference \notin I64_MIN..I64_MAX
        THEN [res |-> "Panic", mq |-> mq1]
        ELSE
        CASE dist <= -1 -> [res |-> "Future", mq |-> mq1]
          [] dist = 0 ->
                [res |-> "OkSome",
                 mq |-> [mq1 EXCEPT
                            !.record_metas = Append(@, record_meta),
                            !.concatenated_records = @ \o payload]]
          [] dist = 1 -> [res |-> "OkNone", mq |-> mq1]
          [] dist >= 2 -> [res |-> "Past", mq |-> mq1]

\* MemQueue::append_record where the subtraction does not overflow, which
\* is so whenever both positions are below 2^(U64_BITS - 1): the two builds
\* then agree.
MemQueue_append_record(mq, file_number, target_position_opt, payload) ==
    MemQueue_append_record_build(mq, file_number, target_position_opt,
                                 payload, FALSE)

\* MemQueue::position_to_idx(position): Some(0-based index) or None.
position_to_idx(mq, position) ==
    IF mq.start_position > position THEN Some(0)
    ELSE LET idx == position - mq.start_position IN
         IF idx > Len(mq.record_metas) THEN None ELSE Some(idx)

\* A std::ops::Bound<u64>.
Included(v) == [kind |-> "Included", value |-> v]
Excluded(v) == [kind |-> "Excluded", value |-> v]
Unbounded == [kind |-> "Unbounded"]

\* RangeBounds::contains(&position).
range_contains(start_bound, end_bound, position) ==
    /\ CASE start_bound.kind = "Included" -> start_bound.value <= position
         [] start_bound.kind = "Excluded" -> start_bound.value < position
         [] start_bound.kind = "Unbounded" -> TRUE
    /\ CASE end_bound.kind = "Included" -> position <= end_bound.value
         [] end_bound.kind = "Excluded" -> position < end_bound.value
         [] end_bound.kind = "Unbounded" -> TRUE

\* A faulty closure of MemQueue::range's map, whose payload always runs to
\* the end of concatenated_records; C1 must tell it from the code.
range_item_to_end(mq, idx) ==
    <<mq.start_position + idx,
      SubSeq(mq.concatenated_records, mq.record_metas[idx + 1].start_offset + 1,
             Len(mq.concatenated_records))>>

\* The closure of MemQueue::range's map: the (position, payload) pair of the
\* record at 0-based index idx; the payload runs to the next record's
\* start_offset, or to the end of concatenated_records for the last record.
range_item(mq, idx) ==
    LET position == mq.start_position + idx
        start_offset == mq.record_metas[idx + 1].start_offset
        end_offset == IF idx + 2 <= Len(mq.record_metas)
                      THEN mq.record_metas[idx + 2].start_offset
                      ELSE Len(mq.concatenated_records)
    IN  <<position, SubSeq(mq.concatenated_records, start_offset + 1, end_offset)>>

RECURSIVE range_take_while(_, _, _, _)
\* (idx..len).take_while(range.contains(position)).map(..).
range_take_while(mq, start_bound, end_bound, idx) ==
    IF idx >= Len(mq.record_metas) THEN <<>>
    ELSE IF ~range_contains(start_bound, end_bound, mq.start_position + idx)
         THEN <<>>
    ELSE <<range_item(mq, idx)>>
            \o range_take_while(mq, start_bound, end_bound, idx + 1)

\* unwrap_or(self.record_metas.len()).
unwrap_or_len(mq, idx_opt) ==
    IF IsSome(idx_opt) THEN Unwrap(idx_opt) ELSE Len(mq.record_metas)

\* MemQueue::range(range): the sequence of (position, payload) it yields.
MemQueue_range(mq, start_bound, end_bound) ==
    LET start_idx ==
            CASE start_bound.kind = "Included" ->
                    unwrap_or_len(mq, position_to_idx(mq, start_bound.value))
              [] start_bound.kind = "Excluded" ->
                    unwrap_or_len(mq, position_to_idx(mq, start_bound.value)) + 1
              [] start_bound.kind = "Unbounded" -> 0
    IN  range_take_while(mq, start_bound, end_bound, start_idx)

\* A faulty MemQueue::truncate that leaves the start_offset of the records
\* it keeps as they were; C24 must tell it from the code.
MemQueue_truncate_keeping_offsets(mq, truncate_up_to_pos) ==
    IF mq.start_position > truncate_up_to_pos THEN [res |-> "Ok", mq |-> mq]
    ELSE LET idx_opt == position_to_idx(mq, truncate_up_to_pos + 1) IN
    IF idx_opt = None
    THEN [res |-> "Ok",
          mq |-> [concatenated_records |-> <<>>,
                  start_position |-> mq.start_position + Len(mq.record_metas),
                  record_metas |-> <<>>]]
    ELSE LET first_record_to_keep == Unwrap(idx_opt) IN
    IF first_record_to_keep >= Len(mq.record_metas)
    THEN [res |-> "Panic", mq |-> mq]
    ELSE LET start_offset_to_keep ==
                mq.record_metas[first_record_to_keep + 1].start_offset
         IN [res |-> "Ok",
             mq |-> [concatenated_records |->
                        SubSeq(mq.concatenated_records, start_offset_to_keep + 1,
                               Len(mq.concatenated_records)),
                     start_position |-> mq.start_position + first_record_to_keep,
                     record_metas |->
                        SubSeq(mq.record_metas, first_record_to_keep + 1,
                               Len(mq.record_metas))]]

\* MemQueue::truncate(truncate_up_to_pos): [res, mq]; res is "Panic" where
\* record_metas[first_record_to_keep] is out of bounds.
MemQueue_truncate(mq, truncate_up_to_pos) ==
    IF mq.start_position > truncate_up_to_pos THEN [res |-> "Ok", mq |-> mq]
    ELSE LET idx_opt == position_to_idx(mq, truncate_up_to_pos + 1) IN
    IF idx_opt = None
    THEN [res |-> "Ok",
          mq |-> [concatenated_records |-> <<>>,
                  start_position |-> mq.start_position + Len(mq.record_metas),
                  record_metas |-> <<>>]]
    ELSE LET first_record_to_keep == Unwrap(idx_opt) IN
    IF first_record_to_keep >= Len(mq.record_metas)
    THEN [res |-> "Panic", mq |-> mq]
    ELSE LET start_offset_to_keep ==
                mq.record_metas[first_record_to_keep + 1].start_offset
             kept == SubSeq(mq.record_metas, first_record_to_keep + 1,
                            Len(mq.record_metas))
         IN [res |-> "Ok",
             mq |-> [concatenated_records |->
                        SubSeq(mq.concatenated_records, start_offset_to_keep + 1,
                               Len(mq.concatenated_records)),
                     start_position |-> mq.start_position + first_record_to_keep,
                     record_metas |->
                        [i \in 1..Len(kept) |->
                            [kept[i] EXCEPT
                                !.start_offset = @ - start_offset_to_keep]]]]

(***************************************************************************)
(* Maps with a finite domain (HashMap<String, MemQueue>, the files of the  *)
(* directory).                                                             *)
(***************************************************************************)
EmptyMap == [k \in {} |-> <<>>]
MapPut(m, key, v) == [k \in DOMAIN m \cup {key} |-> IF k = key THEN v ELSE m[k]]
MapDel(m, key) == [k \in DOMAIN m \ {key} |-> m[k]]

\* The least and the greatest element of a non-empty set of numbers.
Min(S) == CHOOSE x \in S : \A y \in S : x <= y
Max(S) == CHOOSE x \in S : \A y \in S : x >= y

(***************************************************************************)
(* mem/queues.rs: MemQueues, the record                                    *)
(*   [queues, lowest_retained_file_number].                                *)
(***************************************************************************)
\* MemQueues::default().
MemQueues_default == [queues |-> EmptyMap, lowest_retained_file_number |-> None]

\* MemQueues::contains_queue(queue).
contains_queue(mem, queue) == queue \in DOMAIN mem.queues

\* MemQueues::create_queue(queue): [res, mem].
MemQueues_create_queue(mem, queue) ==
    IF queue \in DOMAIN mem.queues THEN [res |-> "AlreadyExists", mem |-> mem]
    ELSE [res |-> "Ok",
          mem |-> [mem EXCEPT !.queues = MapPut(@, queue, MemQueue_default)]]

\* MemQueues::empty_queue_positions(): the (queue, next_position) pairs of
\* the queues holding no record.
empty_queue_positions(mem) ==
    {<<queue, next_position(mem.queues[queue])>> :
        queue \in {q \in DOMAIN mem.queues : is_empty(mem.queues[q])}}

\* MemQueues::get_or_create_queue_mut(queue): the map with the queue in it.
get_or_create_queue_mut(queues, queue) ==
    IF queue \in DOMAIN queues THEN queues
    ELSE MapPut(queues, queue, MemQueue_default)

\* A faulty MemQueues::touch that accepts any position for a queue that is
\* there; C26 must tell it from the code.
MemQueues_touch_any_position(mem, queue, start_position) ==
    IF queue \in DOMAIN mem.queues
    THEN [res |-> "Ok", mem |-> mem]
    ELSE [res |-> "Ok",
          mem |-> [mem EXCEPT
                      !.queues = MapPut(@, queue,
                                        with_next_position(start_position))]]

\* MemQueues::touch(queue, start_position): [res, mem].
MemQueues_touch(mem, queue, start_position) ==
    IF queue \in DOMAIN mem.queues
    THEN IF next_position(mem.queues[queue]) = start_position
         THEN [res |-> "Ok", mem |-> mem]
         ELSE [res |-> "TouchError", mem |-> mem]
    ELSE [res |-> "Ok",
          mem |-> [mem EXCEPT
                      !.queues = MapPut(@, queue,
                                        with_next_position(start_position))]]

\* MemQueues::append_record(queue, file_number, position_opt, record):
\* [res, mem]; on an error the `?` returns before
\* lowest_retained_file_number is looked at.
MemQueues_append_record(mem, queue, file_number, position_opt, record) ==
    Let(get_or_create_queue_mut(mem.queues, queue), LAMBDA queues1 :
    Let(MemQueue_append_record(queues1[queue], file_number, position_opt,
                               record), LAMBDA r :
    Let([mem EXCEPT !.queues = MapPut(queues1, queue, r.mq)], LAMBDA mem1 :
        IF r.res \in {"Future", "Past"} THEN [res |-> r.res, mem |-> mem1]
        ELSE [res |-> r.res,
              mem |-> IF mem1.lowest_retained_file_number = None
                      THEN [mem1 EXCEPT
                               !.lowest_retained_file_number = Some(file_number)]
                      ELSE mem1])))

\* MemQueues::range(queue, range): None for a missing queue, or Some(the
\* sequence of pairs the iterator yields).
MemQueues_range(mem, queue, start_bound, end_bound) ==
    IF queue \notin DOMAIN mem.queues THEN None
    ELSE Some(MemQueue_range(mem.queues[queue], start_bound, end_bound))

\* The files that the loop of MemQueues::truncate sees: the first retained
\* file of every queue that holds a record.
retained_files(queues) ==
    {Unwrap(first_retained_position(queues[q])) :
        q \in {k \in DOMAIN queues : ~is_empty(queues[k])}}

\* A faulty MemQueues::truncate that takes the greatest of the first
\* retained files of the queues where the code takes the least; C38 must
\* tell it from the code.
MemQueues_truncate_to_greatest(mem, queue, position) ==
    IF mem.lowest_retained_file_number = None
    THEN [res |-> "NoTruncation", mem |-> mem]
    ELSE
    Let(Unwrap(mem.lowest_retained_file_number),
        LAMBDA previous_lowest_retained_file_number :
    Let(get_or_create_queue_mut(mem.queues, queue), LAMBDA queues1 :
    Let(MemQueue_truncate(queues1[queue], position), LAMBDA t :
    Let([mem EXCEPT !.queues = MapPut(queues1, queue, t.mq)], LAMBDA mem2 :
    Let(retained_files(mem2.queues), LAMBDA retained :
    IF t.res = "Panic" THEN [res |-> "Panic", mem |-> mem]
    ELSE IF \E f \in retained : f < previous_lowest_retained_file_number
    THEN [res |-> "Panic", mem |-> mem2]
    ELSE IF previous_lowest_retained_file_number \in retained
    THEN [res |-> "NoTruncation", mem |-> mem2]
    ELSE IF retained = {}
    THEN [res |-> "RemoveAllFiles",
          mem |-> [mem2 EXCEPT !.lowest_retained_file_number = None]]
    ELSE [res |-> "RemoveFiles", up_to |-> Max(retained),
          mem |-> [mem2 EXCEPT
                      !.lowest_retained_file_number = Some(Max(retained))]])))))

\* MemQueues::truncate(queue, position): [res, mem] with res the Truncation
\* returned ("NoTruncation", "RemoveFiles", "RemoveAllFiles"; up_to is the
\* end of the RemoveFiles range) or "Panic" (MemQueue::truncate indexing out
\* of bounds, or one of the two assertions).  The loop runs over a HashMap;
\* the first assertion is taken to fire whenever some queue violates it.
MemQueues_truncate(mem, queue, position) ==
    IF mem.lowest_retained_file_number = None
    THEN [res |-> "NoTruncation", mem |-> mem]
    ELSE
    Let(Unwrap(mem.lowest_retained_file_number),
        LAMBDA previous_lowest_retained_file_number :
    Let(get_or_create_queue_mut(mem.queues, queue), LAMBDA queues1 :
    Let(MemQueue_truncate(queues1[queue], position), LAMBDA t :
    Let([mem EXCEPT !.queues = MapPut(queues1, queue, t.mq)], LAMBDA mem2 :
    Let(retained_files(mem2.queues), LAMBDA retained :
    IF t.res = "Panic" THEN [res |-> "Panic", mem |-> mem]
    ELSE IF \E f \in retained : f < previous_lowest_retained_file_number
    THEN [res |-> "Panic", mem |-> mem2]
    ELSE IF previous_lowest_retained_file_number \in retained
    THEN [res |-> "NoTruncation", mem |-> mem2]
    ELSE IF retained = {}
    THEN [res |-> "RemoveAllFiles",
          mem |-> [mem2 EXCEPT !.lowest_retained_file_number = None]]
    ELSE [res |-> "RemoveFiles", up_to |-> Min(retained),
          mem |-> [mem2 EXCEPT
                      !.lowest_retained_file_number = Some(Min(retained))]])))))

\* MemQueues::next_position(queue): None for a missing queue (the
\* MissingQueue error), or Some(the position).  The
\* facade calls it; mem/queues.rs does not hold it.  It forwards by name
\* (spec section 4.8).
MemQueues_next_position(mem, queue) ==
    IF queue \notin DOMAIN mem.queues THEN None
    ELSE Some(next_position(mem.queues[queue]))

\* MemQueues::delete_queue(queue): [res, mem].  The facade calls it;
\* mem/queues.rs does not hold it.  It removes the mapping (spec section
\* 4.8), and the handles the queue's records held are dropped with it.
MemQueues_delete_queue(mem, queue) ==
    IF queue \notin DOMAIN mem.queues THEN [res |-> "MissingQueue", mem |-> mem]
    ELSE [res |-> "Ok", mem |-> [mem EXCEPT !.queues = MapDel(@, queue)]]

(***************************************************************************)
(* position.rs and rolling/directory.rs: the FileNumber chain and the      *)
(* directory.  `chain` is the linked list of FileNumber handles that       *)
(* Directory::first_last_files spans: its head is `first`, its last        *)
(* element is `last`, and each element's `next` is the element after it.   *)
(* <<>> stands for first_last_files = None.  `disk` maps the number of     *)
(* every wal-* file present on disk to its content.                        *)
(***************************************************************************)
\* FileNumber::default(): file number 1.
FileNumber_default == 1

\* The number of RecordMeta holding a handle to file f.
record_handles(queues, f) ==
    LET counts == [q \in DOMAIN queues |->
                     Cardinality({i \in 1..Len(queues[q].record_metas) :
                                    queues[q].record_metas[i].file_number = f})]
        Sum[S \in SUBSET DOMAIN queues] ==
            IF S = {} THEN 0
            ELSE LET q == CHOOSE x \in S : TRUE IN counts[q] + Sum[S \ {q}]
    IN  Sum[DOMAIN queues]

\* Arc::strong_count of the handle of file f: the directory's `first` and
\* `last`, the `next` pointer of the file before it in the chain, and the
\* records of the queues.
strong_count(chain, queues, f) ==
    (IF chain # <<>> /\ Head(chain) = f THEN 1 ELSE 0)
    + (IF chain # <<>> /\ chain[Len(chain)] = f THEN 1 ELSE 0)
    + (IF \E i \in 2..Len(chain) : chain[i] = f THEN 1 ELSE 0)
    + record_handles(queues, f)

\* A faulty FileNumber::can_be_deleted that does not count the handles held
\* by the records of the queues; C8 must tell it from the code.
can_be_deleted_ignoring_records(chain, queues, f) ==
    strong_count(chain, EmptyMap, f) = 1

\* FileNumber::can_be_deleted().
can_be_deleted(chain, queues, f) == strong_count(chain, queues, f) = 1

\* A faulty Directory::gc that deletes nothing; C9 must tell it from the
\* code.
Directory_gc_deleting_nothing(chain, disk, queues) ==
    [res |-> "Ok", chain |-> chain, disk |-> disk]

RECURSIVE Directory_gc(_, _, _)
\* Directory::gc(): [res, chain, disk]; res is "Ok" or "IoError" (remove_file
\* on a file that is not there).
Directory_gc(chain, disk, queues) ==
    IF chain = <<>> THEN [res |-> "Ok", chain |-> chain, disk |-> disk]
    ELSE LET file_cursor == Head(chain) IN
    IF ~can_be_deleted(chain, queues, file_cursor)
    THEN [res |-> "Ok", chain |-> chain, disk |-> disk]
    ELSE IF file_cursor \notin DOMAIN disk
    THEN [res |-> "IoError", chain |-> chain, disk |-> disk]
    ELSE IF Len(chain) > 1
    THEN Directory_gc(Tail(chain), MapDel(disk, file_cursor), queues)
    ELSE Directory_gc(chain, MapDel(disk, file_cursor), queues)

RECURSIVE sorted(_)
\* The numbers of S in ascending order.
sorted(S) == IF S = {} THEN <<>> ELSE <<Min(S)>> \o sorted(S \ {Min(S)})

\* Directory::open with FileNumber::from_file_numbers: the chain over the
\* wal-* files found, in ascending order.
Directory_open(disk) == sorted(DOMAIN disk)

\* Directory::new_file(): [res, chain, disk].  The new number is last + 1
\* (FileNumber::inc), or FileNumber::default() for an empty directory; `last`
\* is set before the file is created with create_new.
Directory_new_file(chain, disk) ==
    LET next_file_number ==
            IF chain # <<>> THEN chain[Len(chain)] + 1 ELSE FileNumber_default
        chain1 == Append(chain, next_file_number)
    IN  IF next_file_number \in DOMAIN disk
        THEN [res |-> "IoError", chain |-> chain1, disk |-> disk]
        ELSE [res |-> "Ok", chain |-> chain1,
              disk |-> MapPut(disk, next_file_number, <<>>)]

(***************************************************************************)
(* The content of a WAL file: the sequence of the records written to it.   *)
(* An entry is [len, payload]: len is the payload length its frame header  *)
(* declares and payload the bytes that reached the file, so that a record  *)
(* whose write was cut short has Len(payload) < len.                       *)
(***************************************************************************)
\* The entry a completed RecordWriter::write_record leaves in the file.
FullEntry(bytes) == [len |-> Len(bytes), payload |-> bytes]

\* The bytes the entry takes in the file: one frame header and the payload.
EntryNumBytes(bytes) == HEADER_LEN + Len(bytes)

(***************************************************************************)
(* rolling/writer.rs: RecordLogWriter.  `io` is the record                 *)
(*   [record_writer_opt, chain, disk]:                                     *)
(* record_writer_opt is None or Some(number of bytes written to the file   *)
(* the writer has open, which is the last file of the chain), chain the    *)
(* Directory the writer owns, disk the files.                              *)
(***************************************************************************)
\* RecordLogWriter::need_new_file().
need_new_file(io) ==
    IF IsSome(io.record_writer_opt)
    THEN Unwrap(io.record_writer_opt) >= LIMIT_NUM_BYTES
    ELSE TRUE

\* RecordLogWriter::open_new_file(): [res, io].  record_writer_opt is taken
\* before the new file is created, so it is None after an error.
open_new_file(io) ==
    Let(Directory_new_file(io.chain, io.disk), LAMBDA d :
    IF d.res # "Ok"
    THEN [res |-> "IoError",
          io |-> [record_writer_opt |-> None, chain |-> d.chain, disk |-> d.disk]]
    ELSE [res |-> "Ok",
          io |-> [record_writer_opt |-> Some(0), chain |-> d.chain,
                  disk |-> d.disk]])

\* RecordLogWriter::roll_if_needed(): [res, io, file_number].
roll_if_needed(io) ==
    Let(IF need_new_file(io) THEN open_new_file(io)
        ELSE [res |-> "Ok", io |-> io], LAMBDA r :
        IF r.res # "Ok" THEN [res |-> r.res, io |-> r.io, file_number |-> 0]
        ELSE [res |-> "Ok", io |-> r.io,
              file_number |-> r.io.chain[Len(r.io.chain)]])

\* RecordLogWriter::current_file(), which the facade calls and writer.rs
\* does not hold: the file the next record goes to, rolling first if needed
\* (spec section 4.9, append_record step 3).
current_file(io) == roll_if_needed(io)

\* RecordLogWriter::write_record(record): [res, io]; res is "Panic" when no
\* record writer is open (the expect in write_record).  The record is
\* flushed to the file by RecordWriter::write_record.
write_record(io, record) ==
    IF io.record_writer_opt = None THEN [res |-> "Panic", io |-> io]
    ELSE Let(Record_serialize(record), LAMBDA bytes :
         Let(io.chain[Len(io.chain)], LAMBDA file :
            [res |-> "Ok",
             io |-> [io EXCEPT
                        !.record_writer_opt =
                            Some(Unwrap(@) + EntryNumBytes(bytes)),
                        !.disk = MapPut(@, file,
                                        Append(io.disk[file], FullEntry(bytes)))]]))

(***************************************************************************)
(* rolling/reader.rs and MultiRecordLog::open: the replay.                 *)
(***************************************************************************)
\* The match of MultiRecordLog::open on one record: [res, mem], res being
\* "Ok", "Corruption" or "Panic".
apply_record(mem, file_number, record) ==
    CASE record.type = "AppendRecord" ->
            Let(MemQueues_append_record(mem, record.queue, file_number,
                                        Some(record.position), record.payload),
                LAMBDA r :
                IF r.res \in {"Future", "Past"}
                THEN [res |-> "Corruption", mem |-> r.mem]
                ELSE [res |-> "Ok", mem |-> r.mem])
      [] record.type = "Truncate" ->
            Let(MemQueues_truncate(mem, record.queue, record.position),
                LAMBDA r :
                IF r.res = "Panic" THEN [res |-> "Panic", mem |-> r.mem]
                ELSE [res |-> "Ok", mem |-> r.mem])
      [] record.type = "Touch" ->
            Let(MemQueues_touch(mem, record.queue, record.position),
                LAMBDA r :
                IF r.res # "Ok" THEN [res |-> "Corruption", mem |-> r.mem]
                ELSE [res |-> "Ok", mem |-> r.mem])
      [] record.type = "DeleteQueue" ->
            Let(MemQueues_delete_queue(mem, record.queue), LAMBDA r :
                IF r.res # "Ok" THEN [res |-> "Corruption", mem |-> r.mem]
                ELSE [res |-> "Ok", mem |-> r.mem])

RECURSIVE replay_file(_, _, _, _)
\* The records of one file, read by RecordLogReader::read_record until its
\* RecordReader reports no further record: an entry whose bytes are not all
\* there ends the file when it is the last one (NotAvailable); when other
\* entries follow it, their bytes complete its frame and the checksum of the
\* frame does not match (Corruption).  A record that does not deserialize
\* is a Corruption.
replay_file(mem, file_number, entries, i) ==
    IF i > Len(entries) THEN [res |-> "Ok", mem |-> mem]
    ELSE IF Len(entries[i].payload) < entries[i].len
    THEN [res |-> IF i = Len(entries) THEN "Ok" ELSE "Corruption", mem |-> mem]
    ELSE Let(Record_deserialize(entries[i].payload), LAMBDA d :
    IF d.res = "Panic" THEN [res |-> "Panic", mem |-> mem]
    ELSE IF d.res = "None" THEN [res |-> "Corruption", mem |-> mem]
    ELSE Let(apply_record(mem, file_number, d.record), LAMBDA a :
    IF a.res # "Ok" THEN a
    ELSE replay_file(a.mem, file_number, entries, i + 1)))

RECURSIVE replay(_, _, _, _)
\* RecordLogReader::go_next_record / load_next_file over the files of the
\* directory: each file loaded must have a number greater than
\* current_file_number (the assertion of load_next_file).
replay(mem, files, disk, current_file_number) ==
    IF files = <<>> THEN [res |-> "Ok", mem |-> mem]
    ELSE Let(Head(files), LAMBDA next_file_number :
    IF ~(next_file_number > current_file_number)
    THEN [res |-> "Panic", mem |-> mem]
    ELSE Let(replay_file(mem, next_file_number, disk[next_file_number], 1),
             LAMBDA r :
            IF r.res # "Ok" THEN r
            ELSE replay(r.mem, Tail(files), disk, next_file_number)))

\* MultiRecordLog::open(directory_path): [res, mem, io].  The reader starts
\* with current_file_number = FileNumber::default(); into_writer gives a
\* RecordLogWriter with no record writer open.
MultiRecordLog_open(disk) ==
    Let(Directory_open(disk), LAMBDA chain :
    Let(replay(MemQueues_default, chain, disk, FileNumber_default), LAMBDA r :
        [res |-> r.res, mem |-> r.mem,
         io |-> [record_writer_opt |-> None, chain |-> chain, disk |-> disk]]))

(***************************************************************************)
(* multi_record_log.rs: the operations of the MultiRecordLog facade, as    *)
(* functions of the in-memory queues `mem` and of the writer `io`.  Each   *)
(* returns [res, mem, io] (append_record also val, the position returned). *)
(***************************************************************************)
\* MultiRecordLog::create_queue(queue): the Touch record is written before
\* MemQueues::create_queue looks for the queue.
MultiRecordLog_create_queue(mem, io, queue) ==
    Let(current_file(io), LAMBDA cf :
    IF cf.res # "Ok" THEN [res |-> "IoError", mem |-> mem, io |-> cf.io]
    ELSE
    Let(write_record(cf.io, [type |-> "Touch", queue |-> queue,
                             position |-> 0]), LAMBDA w :
    IF w.res # "Ok" THEN [res |-> w.res, mem |-> mem, io |-> w.io]
    ELSE
    Let(MemQueues_create_queue(mem, queue), LAMBDA c :
        [res |-> c.res, mem |-> c.mem, io |-> w.io])))

\* MultiRecordLog::delete_queue(queue).
MultiRecordLog_delete_queue(mem, io, queue) ==
    Let(current_file(io), LAMBDA cf :
    Let(MemQueues_next_position(mem, queue), LAMBDA position :
    IF cf.res # "Ok" THEN [res |-> "IoError", mem |-> mem, io |-> cf.io]
    ELSE IF position = None
    THEN [res |-> "MissingQueue", mem |-> mem, io |-> cf.io]
    ELSE
    Let(write_record(cf.io, [type |-> "DeleteQueue", queue |-> queue,
                             position |-> Unwrap(position)]), LAMBDA w :
    IF w.res # "Ok" THEN [res |-> w.res, mem |-> mem, io |-> w.io]
    ELSE
    Let(MemQueues_delete_queue(mem, queue), LAMBDA d :
        [res |-> d.res, mem |-> d.mem, io |-> w.io]))))

\* A faulty MultiRecordLog::append_record without the early return for
\* position + 1 == next_position; C3 must tell it from the code.
MultiRecordLog_append_record_no_early_return(mem, io, queue, position_opt, payload) ==
    Let(MemQueues_next_position(mem, queue), LAMBDA next_position_opt :
    IF next_position_opt = None
    THEN [res |-> "MissingQueue", val |-> None, mem |-> mem, io |-> io]
    ELSE IF IsSome(position_opt)
            /\ Unwrap(position_opt) > Unwrap(next_position_opt)
    THEN [res |-> "Future", val |-> None, mem |-> mem, io |-> io]
    ELSE IF IsSome(position_opt)
            /\ Unwrap(position_opt) + 1 < Unwrap(next_position_opt)
    THEN [res |-> "Past", val |-> None, mem |-> mem, io |-> io]
    ELSE
    Let(IF IsSome(position_opt) THEN Unwrap(position_opt)
        ELSE Unwrap(next_position_opt), LAMBDA position :
    Let(current_file(io), LAMBDA cf :
    IF cf.res # "Ok"
    THEN [res |-> "IoError", val |-> None, mem |-> mem, io |-> cf.io]
    ELSE
    Let(write_record(cf.io, [type |-> "AppendRecord", position |-> position,
                             queue |-> queue, payload |-> payload]), LAMBDA w :
    IF w.res # "Ok"
    THEN [res |-> w.res, val |-> None, mem |-> mem, io |-> w.io]
    ELSE
    Let(MemQueues_append_record(mem, queue, cf.file_number, Some(position),
                                payload), LAMBDA a :
    IF a.res \in {"Future", "Past"}
    THEN [res |-> a.res, val |-> None, mem |-> a.mem, io |-> w.io]
    ELSE [res |-> "Ok", val |-> Some(position), mem |-> a.mem,
          io |-> w.io])))))

\* A faulty MultiRecordLog::append_record without the Future and Past
\* checks made before the write; C15 must tell it from the code.
MultiRecordLog_append_record_no_position_check(mem, io, queue, position_opt, payload) ==
    Let(MemQueues_next_position(mem, queue), LAMBDA next_position_opt :
    IF next_position_opt = None
    THEN [res |-> "MissingQueue", val |-> None, mem |-> mem, io |-> io]
    ELSE IF IsSome(position_opt)
            /\ Unwrap(position_opt) + 1 = Unwrap(next_position_opt)
    THEN [res |-> "Ok", val |-> None, mem |-> mem, io |-> io]
    ELSE
    Let(IF IsSome(position_opt) THEN Unwrap(position_opt)
        ELSE Unwrap(next_position_opt), LAMBDA position :
    Let(current_file(io), LAMBDA cf :
    IF cf.res # "Ok"
    THEN [res |-> "IoError", val |-> None, mem |-> mem, io |-> cf.io]
    ELSE
    Let(write_record(cf.io, [type |-> "AppendRecord", position |-> position,
                             queue |-> queue, payload |-> payload]), LAMBDA w :
    IF w.res # "Ok"
    THEN [res |-> w.res, val |-> None, mem |-> mem, io |-> w.io]
    ELSE
    Let(MemQueues_append_record(mem, queue, cf.file_number, Some(position),
                                payload), LAMBDA a :
    IF a.res \in {"Future", "Past"}
    THEN [res |-> a.res, val |-> None, mem |-> a.mem, io |-> w.io]
    ELSE [res |-> "Ok", val |-> Some(position), mem |-> a.mem,
          io |-> w.io])))))

\* MultiRecordLog::append_record(queue, position_opt, payload).
MultiRecordLog_append_record(mem, io, queue, position_opt, payload) ==
    Let(MemQueues_next_position(mem, queue), LAMBDA next_position_opt :
    IF next_position_opt = None
    THEN [res |-> "MissingQueue", val |-> None, mem |-> mem, io |-> io]
    ELSE IF IsSome(position_opt)
            /\ Unwrap(position_opt) > Unwrap(next_position_opt)
    THEN [res |-> "Future", val |-> None, mem |-> mem, io |-> io]
    ELSE IF IsSome(position_opt)
            /\ Unwrap(position_opt) + 1 = Unwrap(next_position_opt)
    THEN [res |-> "Ok", val |-> None, mem |-> mem, io |-> io]
    ELSE IF IsSome(position_opt)
            /\ Unwrap(position_opt) < Unwrap(next_position_opt)
    THEN [res |-> "Past", val |-> None, mem |-> mem, io |-> io]
    ELSE
    Let(IF IsSome(position_opt) THEN Unwrap(position_opt)
        ELSE Unwrap(next_position_opt), LAMBDA position :
    Let(current_file(io), LAMBDA cf :
    IF cf.res # "Ok"
    THEN [res |-> "IoError", val |-> None, mem |-> mem, io |-> cf.io]
    ELSE
    Let(write_record(cf.io, [type |-> "AppendRecord", position |-> position,
                             queue |-> queue, payload |-> payload]), LAMBDA w :
    IF w.res # "Ok"
    THEN [res |-> w.res, val |-> None, mem |-> mem, io |-> w.io]
    ELSE
    Let(MemQueues_append_record(mem, queue, cf.file_number, Some(position),
                                payload), LAMBDA a :
    IF a.res \in {"Future", "Past"}
    THEN [res |-> a.res, val |-> None, mem |-> a.mem, io |-> w.io]
    ELSE [res |-> "Ok", val |-> Some(position), mem |-> a.mem,
          io |-> w.io])))))

\* MultiRecordLog::append_record(queue, position_opt, payload) when the
\* write_record or the flush of lines 115-116 returns an io::Error after k
\* bytes of the record reached the file: the `?` returns before
\* MemQueues::append_record is called.  A call that returns before line 115
\* does no I/O and is the call above.
MultiRecordLog_append_record_io_error(mem, io, queue, position_opt, payload, k) ==
    Let(MultiRecordLog_append_record(mem, io, queue, position_opt, payload),
        LAMBDA r :
    IF ~(r.res = "Ok" /\ IsSome(r.val)) THEN r
    ELSE
    Let(current_file(io), LAMBDA cf :
    Let(Record_serialize([type |-> "AppendRecord",
                          position |-> Unwrap(r.val),
                          queue |-> queue, payload |-> payload]), LAMBDA bytes :
    Let(cf.io.chain[Len(cf.io.chain)], LAMBDA file :
        [res |-> "IoError", val |-> None, mem |-> mem,
         io |-> IF k = 0 THEN cf.io
                ELSE [cf.io EXCEPT
                        !.record_writer_opt = Some(Unwrap(@) + k),
                        !.disk = MapPut(@, file,
                                    Append(cf.io.disk[file],
                                           [len |-> Len(bytes),
                                            payload |-> SubSeq(bytes, 1, k)]))]]))))

RECURSIVE touch_empty_queues(_, _, _)
\* MultiRecordLog::touch_empty_queues(): [res, io].  `order` is the order in
\* which the HashMap yields the empty queues.  MemQueue::touch, called on a
\* queue that is empty and already at next_position, changes nothing.
touch_empty_queues(mem, io, order) ==
    IF order = <<>> THEN [res |-> "Ok", io |-> io]
    ELSE
    Let(current_file(io), LAMBDA cf :
    IF cf.res # "Ok" THEN [res |-> "IoError", io |-> cf.io]
    ELSE
    Let(write_record(cf.io,
            [type |-> "Touch", queue |-> Head(order),
             position |-> next_position(mem.queues[Head(order)])]), LAMBDA w :
    IF w.res # "Ok" THEN w
    ELSE touch_empty_queues(mem, w.io, Tail(order))))

\* The orders in which a HashMap may yield the elements of S.
Orders(S) ==
    {o \in [1..Cardinality(S) -> S] :
        \A i, j \in 1..Cardinality(S) : i # j => o[i] # o[j]}

\* The queues touch_empty_queues goes through.
EmptyQueues(mem) == {e[1] : e \in empty_queue_positions(mem)}

\* RecordLogWriter::gc(), which the facade calls and writer.rs does not
\* hold: it runs the GC of the directory the writer owns (spec section 4.9,
\* truncate step 6).
RecordLogWriter_gc(io, queues) ==
    Let(Directory_gc(io.chain, io.disk, queues), LAMBDA g :
        [res |-> g.res, io |-> [io EXCEPT !.chain = g.chain, !.disk = g.disk]])

\* A faulty MultiRecordLog::truncate without the check of the position
\* against next_position; C16 must tell it from the code.
MultiRecordLog_truncate_no_future_check(mem, io, queue, position, order) ==
    Let(MemQueues_next_position(mem, queue), LAMBDA next_position_opt :
    IF next_position_opt = None
    THEN [res |-> "MissingQueue", mem |-> mem, io |-> io]
    ELSE
    Let(MemQueues_truncate(mem, queue, position), LAMBDA t :
    IF t.res = "Panic" THEN [res |-> "Panic", mem |-> t.mem, io |-> io]
    ELSE
    Let(write_record(io, [type |-> "Truncate", position |-> position,
                          queue |-> queue]), LAMBDA w :
    IF w.res # "Ok" THEN [res |-> w.res, mem |-> t.mem, io |-> w.io]
    ELSE
    Let(touch_empty_queues(t.mem, w.io, order), LAMBDA e :
    IF e.res # "Ok" THEN [res |-> e.res, mem |-> t.mem, io |-> e.io]
    ELSE
    Let(RecordLogWriter_gc(e.io, t.mem.queues), LAMBDA g :
        [res |-> g.res, mem |-> t.mem, io |-> g.io])))))

\* MultiRecordLog::truncate(queue, position); `order` is the order in which
\* the queues found empty are touched.
MultiRecordLog_truncate(mem, io, queue, position, order) ==
    Let(MemQueues_next_position(mem, queue), LAMBDA next_position_opt :
    IF next_position_opt = None
    THEN [res |-> "MissingQueue", mem |-> mem, io |-> io]
    ELSE IF position >= Unwrap(next_position_opt)
    THEN [res |-> "Future", mem |-> mem, io |-> io]
    ELSE
    Let(MemQueues_truncate(mem, queue, position), LAMBDA t :
    IF t.res = "Panic" THEN [res |-> "Panic", mem |-> t.mem, io |-> io]
    ELSE
    Let(write_record(io, [type |-> "Truncate", position |-> position,
                          queue |-> queue]), LAMBDA w :
    IF w.res # "Ok" THEN [res |-> w.res, mem |-> t.mem, io |-> w.io]
    ELSE
    Let(touch_empty_queues(t.mem, w.io, order), LAMBDA e :
    IF e.res # "Ok" THEN [res |-> e.res, mem |-> t.mem, io |-> e.io]
    ELSE
    Let(RecordLogWriter_gc(e.io, t.mem.queues), LAMBDA g :
        [res |-> g.res, mem |-> t.mem, io |-> g.io])))))

\* MultiRecordLog::range(queue, range).
MultiRecordLog_range(mem, queue, start_bound, end_bound) ==
    MemQueues_range(mem, queue, start_bound, end_bound)

\* The orders touch_empty_queues may follow in truncate(queue, position).
TruncateOrders(mem, queue, position) ==
    Let(MemQueues_next_position(mem, queue), LAMBDA next_position_opt :
    IF next_position_opt = None THEN {<<>>}
    ELSE IF position >= Unwrap(next_position_opt) THEN {<<>>}
    ELSE Orders(EmptyQueues(MemQueues_truncate(mem, queue, position).mem)))

(***************************************************************************)
(* lib.rs: blocks, frame headers and their checksum.  A byte is a number   *)
(* in 0..255 and a file is a sequence of bytes.  A u32 checksum is kept as *)
(* its four little-endian bytes, the form Header::serialize writes.        *)
(***************************************************************************)
\* BLOCK_LEN, scaled down from 32,768 so that a few short records fill a
\* block; it stays larger than two headers.
BLOCK_LEN == 17

\* The frame types and their u8 codes.
FULL == 1
FIRST == 2
MIDDLE == 3
LAST == 4

\* RecordType::from_u8(b): <<>> stands for Err(()).
FrameType_from_u8(b) == IF b \in {FULL, FIRST, MIDDLE, LAST} THEN Some(b) ELSE None

\* is_first_frame_of_record / is_last_frame_of_record of a frame type.
is_first_frame_of_record(frame_type) == frame_type \in {FULL, FIRST}
is_last_frame_of_record(frame_type) == frame_type \in {FULL, LAST}

RECURSIVE xor(_, _)
\* a ^ b on unsigned integers.
xor(a, b) ==
    IF a = 0 THEN b
    ELSE IF b = 0 THEN a
    ELSE ((a + b) % 2) + 2 * xor(a \div 2, b \div 2)

\* c ^ d on u32 values held as four little-endian bytes.
xor32(c, d) == [i \in 1..4 |-> xor(c[i], d[i])]

\* c >> 1 on a u32 value held as four little-endian bytes.
shr1(c) ==
    [i \in 1..4 |-> (c[i] \div 2) + (IF i < 4 THEN 128 * (c[i + 1] % 2) ELSE 0)]

\* One bit of the CRC-32 division (reflected polynomial 0xEDB88320).
crc32_bit(c) ==
    IF c[1] % 2 = 1 THEN xor32(shr1(c), <<32, 131, 184, 237>>) ELSE shr1(c)

\* The byte table of crc32fast: eight divisions of each byte value.
crc32_table ==
    [n \in 0..255 |->
        crc32_bit(crc32_bit(crc32_bit(crc32_bit(crc32_bit(crc32_bit(
            crc32_bit(crc32_bit(<<n, 0, 0, 0>>))))))))]

RECURSIVE crc32_update(_, _)
\* Hasher::update(data) from the running value c.
crc32_update(c, data) ==
    IF data = <<>> THEN c
    ELSE Let(crc32_table[xor(c[1], Head(data))], LAMBDA t :
            crc32_update(<<xor(t[1], c[2]), xor(t[2], c[3]), xor(t[3], c[4]),
                           t[4]>>, Tail(data)))

\* crc32(data): the CRC-32 of crc32fast, as four little-endian bytes.
crc32(data) ==
    xor32(crc32_update(<<255, 255, 255, 255>>, data), <<255, 255, 255, 255>>)

\* Header::for_payload(frame_type, payload).
Header_for_payload(frame_type, payload) ==
    [checksum |-> crc32(payload), len |-> Len(payload) % 65536,
     frame_type |-> frame_type]

\* Header::check(payload).
Header_check(header, payload) == crc32(payload) = header.checksum

\* Header::serialize(dest): the seven bytes of the header.
Header_serialize(header) ==
    header.checksum \o to_le_bytes(header.len, 2) \o <<header.frame_type>>

\* Header::deserialize(data) on seven bytes: <<>> stands for Err(()).
Header_deserialize(data) ==
    Let(FrameType_from_u8(data[7]), LAMBDA ft :
        IF ft = None THEN None
        ELSE Some([checksum |-> SubSeq(data, 1, 4),
                   len |-> from_le_bytes(SubSeq(data, 5, 6)),
                   frame_type |-> Unwrap(ft)]))

\* vec![0u8; n].
zeroes(n) == [i \in 1..n |-> 0]

(***************************************************************************)
(* frame/writer.rs: the FrameWriter.  `wrt` is what has been written to    *)
(* the underlying writer, `current_block_len` the writer's own account of  *)
(* its offset in the block.                                                *)
(***************************************************************************)
\* FrameWriter::create_with_aligned_write(wrt).
create_with_aligned_write(wrt) == [wrt |-> wrt, current_block_len |-> 0]

\* FrameWriter::available_num_bytes_in_block().
available_num_bytes_in_block(fw) == BLOCK_LEN - fw.current_block_len

\* FrameWriter::max_writable_frame_length().
max_writable_frame_length(fw) ==
    IF available_num_bytes_in_block(fw) >= HEADER_LEN
    THEN available_num_bytes_in_block(fw) - HEADER_LEN
    ELSE BLOCK_LEN - HEADER_LEN

\* FrameWriter::pad_block(): the zero bytes are written and
\* current_block_len is left as it is.
pad_block(fw) ==
    [fw EXCEPT !.wrt = @ \o zeroes(available_num_bytes_in_block(fw))]

\* FrameWriter::write_frame(frame_type, payload): [res, fw]; "Panic" is a
\* failed assertion.
write_frame(fw, ft, payload) ==
    Let(IF available_num_bytes_in_block(fw) < HEADER_LEN THEN pad_block(fw)
        ELSE fw, LAMBDA fw1 :
    Let(HEADER_LEN + Len(payload), LAMBDA record_len :
    IF Len(payload) > max_writable_frame_length(fw1) \/ record_len > BLOCK_LEN
    THEN [res |-> "Panic", fw |-> fw1]
    ELSE [res |-> "Ok",
          fw |-> [wrt |-> fw1.wrt
                            \o Header_serialize(Header_for_payload(ft, payload))
                            \o payload,
                  current_block_len |->
                      (fw1.current_block_len + record_len) % BLOCK_LEN]]))

(***************************************************************************)
(* record/writer.rs: the RecordWriter.                                     *)
(***************************************************************************)
\* frame_type(is_first_frame, is_last_frame).
frame_type(is_first_frame, is_last_frame) ==
    IF is_first_frame /\ is_last_frame THEN FULL
    ELSE IF is_first_frame THEN FIRST
    ELSE IF is_last_frame THEN LAST
    ELSE MIDDLE

\* FileTrait::pad_for_block_alignment() on a file holding `bytes`.
pad_for_block_alignment(bytes) ==
    IF Len(bytes) % BLOCK_LEN # 0
    THEN bytes \o zeroes(BLOCK_LEN - (Len(bytes) % BLOCK_LEN))
    ELSE bytes

\* RecordWriter::append_to(wrt, sync_mode).
RecordWriter_append_to(bytes) ==
    create_with_aligned_write(pad_for_block_alignment(bytes))

RECURSIVE write_single_record_loop(_, _, _)
\* The loop of RecordWriter::write_single_record from one frame on.
write_single_record_loop(fw, payload, is_first_frame) ==
    Let(Min({max_writable_frame_length(fw), Len(payload)}),
        LAMBDA frame_payload_len :
    Let(SubSeq(payload, frame_payload_len + 1, Len(payload)), LAMBDA rest :
    Let(write_frame(fw, frame_type(is_first_frame, rest = <<>>),
                    SubSeq(payload, 1, frame_payload_len)), LAMBDA w :
    IF w.res # "Ok" \/ rest = <<>> THEN w
    ELSE write_single_record_loop(w.fw, rest, FALSE))))

\* RecordWriter::write_single_record(payload): [res, fw].
write_single_record(fw, payload) == write_single_record_loop(fw, payload, TRUE)

\* RecordWriter::write_record(payload): [res, fw]; the flushes write
\* nothing more.
RecordWriter_write_record(fw, payload) == write_single_record(fw, payload)

(***************************************************************************)
(* The FrameReader of frame/reader.rs, which record/reader.rs calls.  The  *)
(* reader is at `cursor` bytes from the start of `data`, the bytes of the  *)
(* file so far.  It reads block by block (section 4.3 of the design): a    *)
(* frame never crosses a block, and fewer than HEADER_LEN bytes left in a  *)
(* block are padding.                                                      *)
(***************************************************************************)
\* The start of the block after the one `cursor` is in.
next_block(cursor) == cursor - (cursor % BLOCK_LEN) + BLOCK_LEN

RECURSIVE FrameReader_read_frame(_, _)
\* FrameReader::read_frame(): [res, frame_type, payload, cursor] with res
\* "Ok", "NotAvailable" or "Corruption".  An invalid type or a length
\* that overflows the block drops the rest of the block
\* (test_recordlog_truncation_in_file,
\* test_multiple_blocks_corruption_on_length); a wrong checksum passes the
\* frame (test_frame_corruption_in_payload).
FrameReader_read_frame(data, cursor) ==
    Let([res |-> "NotAvailable", frame_type |-> 0, payload |-> <<>>,
         cursor |-> cursor], LAMBDA not_available :
    IF next_block(cursor) - cursor < HEADER_LEN
    THEN IF Len(data) > next_block(cursor)
         THEN FrameReader_read_frame(data, next_block(cursor))
         ELSE not_available
    ELSE IF Len(data) < cursor + HEADER_LEN THEN not_available
    ELSE
    Let(Header_deserialize(SubSeq(data, cursor + 1, cursor + HEADER_LEN)),
        LAMBDA header :
    IF header = None
    THEN [not_available EXCEPT !.res = "Corruption",
                               !.cursor = next_block(cursor)]
    ELSE
    Let(cursor + HEADER_LEN + Unwrap(header).len, LAMBDA frame_end :
    IF frame_end > next_block(cursor)
    THEN [not_available EXCEPT !.res = "Corruption",
                               !.cursor = next_block(cursor)]
    ELSE IF Len(data) < frame_end THEN not_available
    ELSE
    Let(SubSeq(data, cursor + HEADER_LEN + 1, frame_end), LAMBDA payload :
    IF ~Header_check(Unwrap(header), payload)
    THEN [not_available EXCEPT !.res = "Corruption", !.cursor = frame_end]
    ELSE [res |-> "Ok", frame_type |-> Unwrap(header).frame_type,
          payload |-> payload, cursor |-> frame_end]))))

(***************************************************************************)
(* record/reader.rs: the RecordReader.                                     *)
(***************************************************************************)
\* RecordReader::open(reader).
RecordReader_open == [cursor |-> 0, record_buffer |-> <<>>, within_record |-> FALSE]

RECURSIVE go_next_keeping_within_record(_, _)
\* A faulty RecordReader::go_next that leaves within_record as it is on a
\* Corruption; C28 must tell it from the code.
go_next_keeping_within_record(data, rr) ==
    Let(FrameReader_read_frame(data, rr.cursor), LAMBDA f :
    IF f.res = "Corruption"
    THEN [res |-> "Corruption", rr |-> [rr EXCEPT !.cursor = f.cursor]]
    ELSE IF f.res = "NotAvailable"
    THEN [res |-> "false", rr |-> [rr EXCEPT !.cursor = f.cursor]]
    ELSE
    Let(rr.within_record \/ is_first_frame_of_record(f.frame_type),
        LAMBDA within_record :
    Let([cursor |-> f.cursor,
         within_record |-> within_record,
         record_buffer |->
            IF ~within_record THEN rr.record_buffer
            ELSE (IF is_first_frame_of_record(f.frame_type) THEN <<>>
                  ELSE rr.record_buffer) \o f.payload], LAMBDA rr1 :
    IF is_last_frame_of_record(f.frame_type) /\ within_record
    THEN [res |-> "true", rr |-> [rr1 EXCEPT !.within_record = FALSE]]
    ELSE go_next_keeping_within_record(data, rr1))))

RECURSIVE go_next(_, _)
\* RecordReader::go_next(): [res, rr] with res "true", "false" or
\* "Corruption".
go_next(data, rr) ==
    Let(FrameReader_read_frame(data, rr.cursor), LAMBDA f :
    IF f.res = "Corruption"
    THEN [res |-> "Corruption",
          rr |-> [rr EXCEPT !.cursor = f.cursor, !.within_record = FALSE]]
    ELSE IF f.res = "NotAvailable"
    THEN [res |-> "false", rr |-> [rr EXCEPT !.cursor = f.cursor]]
    ELSE
    Let(rr.within_record \/ is_first_frame_of_record(f.frame_type),
        LAMBDA within_record :
    Let([cursor |-> f.cursor,
         within_record |-> within_record,
         record_buffer |->
            IF ~within_record THEN rr.record_buffer
            ELSE (IF is_first_frame_of_record(f.frame_type) THEN <<>>
                  ELSE rr.record_buffer) \o f.payload], LAMBDA rr1 :
    IF is_last_frame_of_record(f.frame_type) /\ within_record
    THEN [res |-> "true", rr |-> [rr1 EXCEPT !.within_record = FALSE]]
    ELSE go_next(data, rr1))))

\* RecordReader::read_record(): [res, record, rr] with res "Some", "None"
\* or "Corruption".
RecordReader_read_record(data, rr) ==
    Let(go_next(data, rr), LAMBDA g :
        [res |-> IF g.res = "true" THEN "Some"
                 ELSE IF g.res = "false" THEN "None" ELSE "Corruption",
         record |-> IF g.res = "true" THEN g.rr.record_buffer ELSE <<>>,
         rr |-> g.rr])

RECURSIVE read_records(_, _)
\* What successive read_record calls return from rr on, up to the first
\* Ok(None): <<"Some", payload>> for Ok(Some(payload)) and
\* <<"Corruption", <<>>>> for the error.
read_records(data, rr) ==
    Let(RecordReader_read_record(data, rr), LAMBDA r :
    IF r.res = "None" THEN <<>>
    ELSE <<(<<r.res, r.record>>)>> \o read_records(data, r.rr))

\* Ok(Some(payload)) for each of the payloads, in order.
all_some(payloads) == [i \in 1..Len(payloads) |-> <<"Some", payloads[i]>>]

(***************************************************************************)
(* writer.rs: the synchronous Writer.  `write` is what has been written to *)
(* the underlying writer.                                                  *)
(***************************************************************************)
\* Writer::new(w).
Writer_new == [write |-> <<>>, current_block_len |-> 0]

\* Writer::write_record(record_type, data).
Writer_write_record(w, record_type, data) ==
    [write |-> w.write \o Header_serialize(Header_for_payload(record_type, data))
                       \o data,
     current_block_len |-> w.current_block_len + HEADER_LEN + Len(data)]

RECURSIVE add_record_loop(_, _, _)
\* The loop of Writer::add_record from one chunk on.
add_record_loop(w, record_payload, first_chunk) ==
    IF ~(first_chunk \/ record_payload # <<>>) THEN w
    ELSE
    Let(BLOCK_LEN - w.current_block_len, LAMBDA remaining_block_len :
    IF remaining_block_len < HEADER_LEN
    THEN add_record_loop([write |-> w.write \o zeroes(remaining_block_len),
                          current_block_len |-> 0], record_payload, first_chunk)
    ELSE
    Let(Min({remaining_block_len - HEADER_LEN, Len(record_payload)}),
        LAMBDA chunk_payload_len :
    Let(SubSeq(record_payload, chunk_payload_len + 1, Len(record_payload)),
        LAMBDA remaining_payload :
        add_record_loop(
            Writer_write_record(w,
                frame_type(first_chunk, remaining_payload = <<>>),
                SubSeq(record_payload, 1, chunk_payload_len)),
            remaining_payload, FALSE))))

\* Writer::add_record(record_payload).
add_record(w, record_payload) == add_record_loop(w, record_payload, TRUE)

(***************************************************************************)
(* reader.rs: the synchronous Reader over `data`, the bytes of the         *)
(* underlying reader.  `read_pos` is how far that reader has been read;    *)
(* the loaded part of `block` is the current_block_len bytes before it.    *)
(***************************************************************************)
\* InnerReader::new(read).
InnerReader_new ==
    [read_pos |-> 0, in_block_offset |-> 0, current_block_len |-> 0,
     block_dropped |-> FALSE]

\* block[from..to] of the reader (offsets within the loaded block).
block_slice(data, r, from, to) ==
    SubSeq(data, r.read_pos - r.current_block_len + from + 1,
           r.read_pos - r.current_block_len + to)

\* InnerReader::available_num_bytes().
available_num_bytes(r) == r.current_block_len - r.in_block_offset

\* A faulty InnerReader::fill_block_buffer that reads into the start of the
\* block when the block is incomplete, and so loses the bytes of a partial
\* frame it had read; C31 must tell it from the code.
fill_block_buffer_restarting(data, r) ==
    Let([r EXCEPT !.current_block_len = 0,
                  !.block_dropped = @ \/ r.current_block_len = BLOCK_LEN,
                  !.in_block_offset =
                      IF r.current_block_len = BLOCK_LEN THEN 0 ELSE @],
        LAMBDA r1 :
    Let(Min({BLOCK_LEN - r1.current_block_len, Len(data) - r1.read_pos}),
        LAMBDA read_len :
        [r1 EXCEPT !.read_pos = @ + read_len,
                   !.current_block_len = @ + read_len]))

\* InnerReader::fill_block_buffer().
fill_block_buffer(data, r) ==
    Let(IF r.current_block_len = BLOCK_LEN
        THEN [r EXCEPT !.block_dropped = TRUE, !.current_block_len = 0,
                       !.in_block_offset = 0]
        ELSE r, LAMBDA r1 :
    Let(Min({BLOCK_LEN - r1.current_block_len, Len(data) - r1.read_pos}),
        LAMBDA read_len :
        [r1 EXCEPT !.read_pos = @ + read_len,
                   !.current_block_len = @ + read_len]))

\* A faulty InnerReader::read_frame that returns the Corruption of a wrong
\* checksum before it moves in_block_offset to the end of the frame; C30
\* must tell it from the code.
InnerReader_read_frame_not_advancing(data, r, record_buffer) ==
    Let(IF available_num_bytes(r) < HEADER_LEN THEN fill_block_buffer(data, r)
        ELSE r, LAMBDA r1 :
    Let([res |-> "None", frame_type |-> 0, r |-> r1,
         record_buffer |-> record_buffer], LAMBDA none :
    IF available_num_bytes(r1) < HEADER_LEN THEN none
    ELSE
    Let(Header_deserialize(block_slice(data, r1, r1.in_block_offset,
                                       r1.in_block_offset + HEADER_LEN)),
        LAMBDA header :
    IF header = None THEN [none EXCEPT !.res = "Corruption"]
    ELSE
    Let(r1.in_block_offset + HEADER_LEN, LAMBDA frame_start :
    Let(frame_start + Unwrap(header).len, LAMBDA frame_end :
    IF frame_end > BLOCK_LEN
    THEN [none EXCEPT !.res = "Corruption", !.r.block_dropped = TRUE]
    ELSE
    Let(IF r1.current_block_len < frame_end THEN fill_block_buffer(data, r1)
        ELSE r1, LAMBDA r2 :
    IF r2.current_block_len < frame_end THEN [none EXCEPT !.r = r2]
    ELSE
    Let(block_slice(data, r2, frame_start, frame_end), LAMBDA frame_payload :
    Let([r2 EXCEPT !.in_block_offset = frame_end], LAMBDA r3 :
    IF ~Header_check(Unwrap(header), frame_payload)
    THEN [none EXCEPT !.res = "Corruption", !.r = r2]
    ELSE [res |-> "Some", frame_type |-> Unwrap(header).frame_type, r |-> r3,
          record_buffer |->
              (IF is_first_frame_of_record(Unwrap(header).frame_type)
               THEN <<>> ELSE record_buffer) \o frame_payload]))))))))

\* InnerReader::read_frame(record_buffer): [res, frame_type, r,
\* record_buffer] with res "Some", "None" or "Corruption".
InnerReader_read_frame(data, r, record_buffer) ==
    Let(IF available_num_bytes(r) < HEADER_LEN THEN fill_block_buffer(data, r)
        ELSE r, LAMBDA r1 :
    Let([res |-> "None", frame_type |-> 0, r |-> r1,
         record_buffer |-> record_buffer], LAMBDA none :
    IF available_num_bytes(r1) < HEADER_LEN THEN none
    ELSE
    Let(Header_deserialize(block_slice(data, r1, r1.in_block_offset,
                                       r1.in_block_offset + HEADER_LEN)),
        LAMBDA header :
    IF header = None THEN [none EXCEPT !.res = "Corruption"]
    ELSE
    Let(r1.in_block_offset + HEADER_LEN, LAMBDA frame_start :
    Let(frame_start + Unwrap(header).len, LAMBDA frame_end :
    IF frame_end > BLOCK_LEN
    THEN [none EXCEPT !.res = "Corruption", !.r.block_dropped = TRUE]
    ELSE
    Let(IF r1.current_block_len < frame_end THEN fill_block_buffer(data, r1)
        ELSE r1, LAMBDA r2 :
    IF r2.current_block_len < frame_end THEN [none EXCEPT !.r = r2]
    ELSE
    Let(block_slice(data, r2, frame_start, frame_end), LAMBDA frame_payload :
    Let([r2 EXCEPT !.in_block_offset = frame_end], LAMBDA r3 :
    IF ~Header_check(Unwrap(header), frame_payload)
    THEN [none EXCEPT !.res = "Corruption", !.r = r3]
    ELSE [res |-> "Some", frame_type |-> Unwrap(header).frame_type, r |-> r3,
          record_buffer |->
              (IF is_first_frame_of_record(Unwrap(header).frame_type)
               THEN <<>> ELSE record_buffer) \o frame_payload]))))))))

RECURSIVE read_record_loop(_, _, _)
\* The while loop of InnerReader::read_record: [res, record, r,
\* record_buffer].
read_record_loop(data, r, record_buffer) ==
    Let(InnerReader_read_frame(data, r, record_buffer), LAMBDA f :
    IF f.res = "Some" /\ ~is_last_frame_of_record(f.frame_type)
    THEN read_record_loop(data, f.r, f.record_buffer)
    ELSE [res |-> f.res,
          record |-> IF f.res = "Some" THEN f.record_buffer ELSE <<>>,
          r |-> f.r, record_buffer |-> f.record_buffer])

\* InnerReader::read_record(record_buffer), which Reader::read_record
\* forwards to.
InnerReader_read_record(data, r, record_buffer) ==
    IF r.block_dropped
    THEN Let(fill_block_buffer(data, r), LAMBDA r1 :
         IF r1.current_block_len # BLOCK_LEN
         THEN [res |-> "None", record |-> <<>>, r |-> r1,
               record_buffer |-> record_buffer]
         ELSE read_record_loop(data,
                               [r1 EXCEPT !.block_dropped = FALSE,
                                          !.in_block_offset = BLOCK_LEN],
                               record_buffer))
    ELSE read_record_loop(data, r, record_buffer)

RECURSIVE Reader_read_records(_, _, _)
\* What successive Reader::read_record calls return, up to the first
\* result that is no record: <<"Some", payload>> for each record, and
\* <<"Corruption", <<>>>> at the end if the calls stopped on the error.
Reader_read_records(data, r, record_buffer) ==
    Let(InnerReader_read_record(data, r, record_buffer), LAMBDA x :
    IF x.res = "None" THEN <<>>
    ELSE IF x.res = "Corruption" THEN <<(<<"Corruption", <<>>>>)>>
    ELSE <<(<<"Some", x.record>>)>>
         \o Reader_read_records(data, x.r, x.record_buffer))

(***************************************************************************)
(* The state of the program.                                               *)
(***************************************************************************)
VARIABLES
    status,             \* "up": a MultiRecordLog is open; "down": no process
    in_mem_queues,      \* MultiRecordLog.in_mem_queues
    record_writer_opt,  \* RecordLogWriter.record_writer_opt
    directory,          \* RecordLogWriter.directory: the FileNumber chain
    disk,               \* the wal-* files of the directory
    nwrites,            \* history: number of calls that wrote to the directory
    pre,                \* history: what the queues held when the process
                        \* last went down, None while it has run since
    clean,              \* history: every call that changed the queues or
                        \* the directory returned Ok
    appended,           \* history: for each queue created by this process and
                        \* not truncated since, the payloads appended to it
    stale,              \* history: a file that a truncate left on disk with
                        \* no retained record, and the calls completed since
    io_failed           \* history: a call has returned an io::Error

\* The record log above the rolling files.
log_vars == <<status, in_mem_queues, record_writer_opt, directory, disk,
              nwrites, pre, clean, appended, stale, io_failed>>

VARIABLES
    frame_writer,       \* RecordWriter.frame_writer, with the file it writes
    written,            \* history: the payloads given to write_record
    writer,             \* the synchronous Writer, with what it has written
    added,              \* history: the payloads given to add_record
    tail_file,          \* the bytes of the file the two tasks share
    tail_writer,        \* the writing task: the current_block_len of its
                        \* RecordWriter, None when it has none
    record_id,          \* the writing task: the next id to write
    nfaults,            \* history: number of writes that failed
    record_reader,      \* the reading task: its RecordReader
    next_record_id,     \* the reading task: the next id it expects
    reader_task,        \* the reading task: "running", "done",
                        \* "assert_failed" (it got an id greater than the
                        \* one it expected) or "panicked" (it got a record
                        \* that is no number)
    frames_file,        \* the bytes of a file of frames, given to a reader
    frames,             \* history: the frames written to frames_file, each
                        \* with the offset of its header
    damage,             \* history: the offset of the byte of frames_file
                        \* that was changed after it was written, plus
                        \* one; 0 while no byte was changed
    mem_queues,         \* a MemQueues that is called directly
    mem_file_number,    \* the file number given to its append_record
    mem_appends         \* the number of records appended to it

\* A RecordWriter and a RecordReader on one complete file.
record_vars == <<frame_writer, written>>

\* A Writer and a Reader on one complete file.
sync_vars == <<writer, added>>

\* A writing task and a reading task on one file.
tail_vars == <<tail_file, tail_writer, record_id, nfaults, record_reader,
               next_record_id, reader_task>>

\* A file of frames and the byte of it that is damaged.
frame_vars == <<frames_file, frames, damage>>

\* A MemQueues and the file number of the records appended to it.
mem_vars == <<mem_queues, mem_file_number, mem_appends>>

vars == <<log_vars, record_vars, sync_vars, tail_vars, frame_vars, mem_vars>>

\* The writer of the current state.
Io == [record_writer_opt |-> record_writer_opt, chain |-> directory,
       disk |-> disk]

\* What a caller can observe of the queues: for each queue its next_position
\* and the (position, payload) pairs of range(queue, ..).
View(mem) ==
    [q \in DOMAIN mem.queues |->
        [next_position |-> next_position(mem.queues[q]),
         records |-> Unwrap(MultiRecordLog_range(mem, q, Unbounded,
                                                 Unbounded))]]

\* The files on disk, other than the active one, that back no retained record.
StaleFiles(mem, io) ==
    {f \in DOMAIN io.disk :
        /\ f # io.chain[Len(io.chain)]
        /\ record_handles(mem.queues, f) = 0}

NoStale == [file |-> 0, ops |-> 0]

\* Number of calls a file is followed for after a truncate left it stale.
GraceOps == 2

\* `stale` after a truncate that returned Ok.
StaleAfterTruncate(mem, io) ==
    LET S == StaleFiles(mem, io) IN
    IF stale.file \in S
    THEN [stale EXCEPT !.ops = IF @ > GraceOps THEN @ ELSE @ + 1]
    ELSE IF S # {} THEN [file |-> Min(S), ops |-> 0]
    ELSE NoStale

\* `stale` after any other call.
StaleAfterCall(mem, io) ==
    IF stale.file \in StaleFiles(mem, io)
    THEN [stale EXCEPT !.ops = IF @ > GraceOps THEN @ ELSE @ + 1]
    ELSE NoStale

\* MultiRecordLog::open on an empty directory.
Init ==
    /\ status = "up"
    /\ in_mem_queues = MemQueues_default
    /\ record_writer_opt = None
    /\ directory = <<>>
    /\ disk = EmptyMap
    /\ nwrites = 0
    /\ pre = None
    /\ clean = TRUE
    /\ appended = EmptyMap
    /\ stale = NoStale
    /\ io_failed = FALSE
    /\ frame_writer = create_with_aligned_write(<<>>)
    /\ written = <<>>
    /\ writer = Writer_new
    /\ added = <<>>
    /\ tail_file = <<>>
    /\ tail_writer = None
    /\ record_id = 0
    /\ nfaults = 0
    /\ record_reader = RecordReader_open
    /\ next_record_id = 0
    /\ reader_task = "running"
    /\ frames_file = <<>>
    /\ frames = <<>>
    /\ damage = 0
    /\ mem_queues = MemQueues_default
    /\ mem_file_number = FileNumber_default
    /\ mem_appends = 0

\* The end of a call of the facade that gave r = [res, mem, io]: a panic
\* takes the process down, the files keeping what was written.  Calls that
\* write are explored up to MaxWrites.
Return(r, appended1, stale1) ==
    /\ UNCHANGED <<record_vars, sync_vars, tail_vars, frame_vars, mem_vars>>
    /\ r.io.disk # disk => nwrites < MaxWrites
    /\ nwrites' = IF r.io.disk # disk THEN nwrites + 1 ELSE nwrites
    /\ io_failed' = (io_failed \/ r.res = "IoError")
    /\ clean' = (clean /\ (r.res = "Ok" \/ (r.mem = in_mem_queues /\ r.io = Io)))
    /\ disk' = r.io.disk
    /\ IF r.res = "Panic"
       THEN /\ status' = "down"
            /\ in_mem_queues' = MemQueues_default
            /\ record_writer_opt' = None
            /\ directory' = <<>>
            /\ pre' = Some(View(in_mem_queues))
            /\ appended' = EmptyMap
            /\ stale' = NoStale
       ELSE /\ status' = "up"
            /\ in_mem_queues' = r.mem
            /\ record_writer_opt' = r.io.record_writer_opt
            /\ directory' = r.io.chain
            /\ pre' = None
            /\ appended' = appended1
            /\ stale' = stale1

(***************************************************************************)
(* The calls of the facade.                                                *)
(***************************************************************************)
CreateQueue(queue) ==
    /\ status = "up"
    /\ \E r \in {MultiRecordLog_create_queue(in_mem_queues, Io, queue)} :
       Return(r,
              IF r.res = "Ok" THEN MapPut(appended, queue, <<>>) ELSE appended,
              StaleAfterCall(r.mem, r.io))

DeleteQueue(queue) ==
    /\ status = "up"
    /\ \E r \in {MultiRecordLog_delete_queue(in_mem_queues, Io, queue)} :
       Return(r,
              IF r.res = "Ok" THEN MapDel(appended, queue) ELSE appended,
              StaleAfterCall(r.mem, r.io))

AppendRecord(queue, position_opt, payload) ==
    /\ status = "up"
    /\ \E r \in {MultiRecordLog_append_record(in_mem_queues, Io, queue,
                                                position_opt, payload)} :
          Return(r,
                 IF r.res = "Ok" /\ IsSome(r.val) /\ queue \in DOMAIN appended
                 THEN MapPut(appended, queue, Append(appended[queue], payload))
                 ELSE appended,
                 StaleAfterCall(r.mem, r.io))

Truncate(queue, position) ==
    /\ status = "up"
    /\ \E order \in TruncateOrders(in_mem_queues, queue, position) :
       \E r \in {MultiRecordLog_truncate(in_mem_queues, Io, queue, position,
                                         order)} :
           Return(r,
                  IF r.res = "Ok" THEN MapDel(appended, queue) ELSE appended,
                  IF r.res = "Ok" THEN StaleAfterTruncate(r.mem, r.io)
                  ELSE StaleAfterCall(r.mem, r.io))

(***************************************************************************)
(* The process is killed, and a new one opens the directory.               *)
(***************************************************************************)
\* The in-memory state is lost with the process.
Down ==
    /\ status' = "down"
    /\ in_mem_queues' = MemQueues_default
    /\ record_writer_opt' = None
    /\ directory' = <<>>
    /\ pre' = Some(View(in_mem_queues))
    /\ appended' = EmptyMap
    /\ stale' = NoStale

\* A kill between two calls.
Kill ==
    /\ status = "up"
    /\ Down
    /\ UNCHANGED <<disk, nwrites, clean, io_failed>>
    /\ UNCHANGED <<record_vars, sync_vars, tail_vars, frame_vars, mem_vars>>

\* The prefixes of the record that may have reached the file when the
\* process is killed in write_record: none of it, part of the frame header,
\* or all of it.
TornLens(bytes) == {0, 1, Len(bytes)}

\* A kill in the middle of append_record(queue, None, payload), after the
\* roll and with k bytes of the record written; the call never returns.
KillDuringAppend(queue, payload) ==
    /\ status = "up"
    /\ nwrites < MaxWrites
    /\ queue \in DOMAIN in_mem_queues.queues
    /\ \E cf \in {current_file(Io)} :
       \E bytes \in {Record_serialize(
                        [type |-> "AppendRecord",
                         position |-> next_position(in_mem_queues.queues[queue]),
                         queue |-> queue, payload |-> payload])} :
       \E file \in {cf.io.chain[Len(cf.io.chain)]} :
           /\ cf.res = "Ok"
           /\ \E k \in TornLens(bytes) :
                disk' = IF k = 0 THEN cf.io.disk
                        ELSE MapPut(cf.io.disk, file,
                                    Append(cf.io.disk[file],
                                           [len |-> Len(bytes),
                                            payload |-> SubSeq(bytes, 1, k)]))
    /\ Down
    /\ nwrites' = nwrites + 1
    /\ clean' = FALSE
    /\ UNCHANGED io_failed
    /\ UNCHANGED <<record_vars, sync_vars, tail_vars, frame_vars, mem_vars>>

\* MultiRecordLog::open(directory_path) by a new process.  When it fails
\* (an error or a panic) there is no MultiRecordLog and nothing has changed.
Open ==
    /\ status = "down"
    /\ \E r \in {MultiRecordLog_open(disk)} :
        IF r.res = "Ok"
        THEN /\ status' = "up"
             /\ in_mem_queues' = r.mem
             /\ record_writer_opt' = r.io.record_writer_opt
             /\ directory' = r.io.chain
        ELSE UNCHANGED <<status, in_mem_queues, record_writer_opt, directory>>
    /\ UNCHANGED <<disk, nwrites, pre, clean, appended, stale, io_failed>>
    /\ UNCHANGED <<record_vars, sync_vars, tail_vars, frame_vars, mem_vars>>

\* The position_opt arguments callers pass to append_record.
PositionOpts == {None} \cup {Some(p) : p \in Positions}

Next ==
    \/ \E queue \in QueueNames : CreateQueue(queue)
    \/ \E queue \in QueueNames : DeleteQueue(queue)
    \/ \E queue \in QueueNames, payload \in Payloads :
            \E position_opt \in PositionOpts :
                AppendRecord(queue, position_opt, payload)
    \/ \E queue \in QueueNames, position \in Positions :
            Truncate(queue, position)
    \/ Kill
    \/ \E queue \in QueueNames, payload \in Payloads :
            KillDuringAppend(queue, payload)
    \/ Open

Spec == Init /\ [][Next]_vars

(***************************************************************************)
(* Properties.                                                             *)
(***************************************************************************)
\* The (position, payload) pairs of payloads stored at consecutive positions
\* starting at 0.
FromZero(payloads) == [i \in 1..Len(payloads) |-> <<i - 1, payloads[i]>>]

\* C1: for appends made without a position on existing queues, interleaved
\* across queues in any way, range(q, 0..) yields exactly the payloads
\* appended to q, in append order, at consecutive positions starting at 0.
C1_AppendReadRoundTrip ==
    status = "up" =>
        \A q \in DOMAIN appended :
            MultiRecordLog_range(in_mem_queues, q, Included(0), Unbounded)
                = Some(FromZero(appended[q]))

\* Both queues were appended to, one of them twice with different payloads,
\* the empty payload first.
C1_Witness ==
    /\ status = "up"
    /\ DOMAIN appended = QueueNames
    /\ \E q \in QueueNames :
        /\ Len(appended[q]) >= 2
        /\ appended[q][1] = <<>>
        /\ appended[q][2] # <<>>
        /\ \A q2 \in QueueNames \ {q} : Len(appended[q2]) >= 1

\* C2: an append_record that returns Ok(Some(p)) for queue q has p equal to
\* next_position(q) just before the call and leaves next_position(q) at
\* p + 1; every other outcome (Ok(None) or an error) leaves next_position(q)
\* as it was.
C2_AppendPositions ==
    status = "up" =>
        \A q \in QueueNames, po \in PositionOpts, x \in Payloads :
            Let(MultiRecordLog_append_record(in_mem_queues, Io, q, po, x),
                LAMBDA r :
                IF r.res = "Ok" /\ IsSome(r.val)
                THEN /\ r.val = MemQueues_next_position(in_mem_queues, q)
                     /\ MemQueues_next_position(r.mem, q)
                            = Some(Unwrap(r.val) + 1)
                ELSE /\ r.res # "Panic"
                     /\ MemQueues_next_position(r.mem, q)
                            = MemQueues_next_position(in_mem_queues, q))

\* Appends were acknowledged at positions 0 and 1 of one queue while the
\* other queue is missing, so that calls of every outcome follow.
C2_Witness ==
    /\ status = "up"
    /\ \E q \in DOMAIN in_mem_queues.queues :
        /\ DOMAIN in_mem_queues.queues = {q}
        /\ in_mem_queues.queues[q].start_position = 0
        /\ Len(in_mem_queues.queues[q].record_metas) = 2

\* C3: append_record(q, Some(p), x) with p + 1 = next_position(q) returns
\* Ok(None) whatever x is, writes nothing to the log and leaves
\* next_position(q) and range(q, ..) as they were, the record at p keeping
\* its payload; the state being the same, repeating the call gives the same.
C3_AppendIdempotent ==
    status = "up" =>
        \A q \in QueueNames, p \in Positions, x \in Payloads :
            MemQueues_next_position(in_mem_queues, q) = Some(p + 1) =>
                Let(MultiRecordLog_append_record(in_mem_queues, Io, q,
                                                 Some(p), x),
                    LAMBDA r :
                    /\ r.res = "Ok"
                    /\ r.val = None
                    /\ r.io = Io
                    /\ r.mem = in_mem_queues)

\* A queue whose last record, at position 1, holds a non-empty payload: the
\* call at position 1 is made with that payload and with the empty one.
C3_Witness ==
    /\ status = "up"
    /\ \E q \in DOMAIN in_mem_queues.queues :
        /\ next_position(in_mem_queues.queues[q]) = 2
        /\ MultiRecordLog_range(in_mem_queues, q, Included(1), Included(1))
                = Some(<< <<1, <<7>>>> >>)

\* The files backing the records a queue retains.
FilesOf(mq) == {mq.record_metas[i].file_number : i \in 1..Len(mq.record_metas)}

\* C4: a record acknowledged with Ok(Some(p)) for queue q and not truncated
\* since survives a kill of the process at any later point, also in the
\* middle of a call: MultiRecordLog::open succeeds and range(q, p..=p)
\* yields exactly the acknowledged payload at position p.
C4_AckedAppendsSurviveKill ==
    status = "down" =>
        \A q \in DOMAIN Unwrap(pre) :
            \A i \in 1..Len(Unwrap(pre)[q].records) :
                Let(MultiRecordLog_open(disk), LAMBDA o :
                Let(Unwrap(pre)[q].records[i], LAMBDA acked :
                    /\ o.res = "Ok"
                    /\ MultiRecordLog_range(o.mem, q, Included(acked[1]),
                                            Included(acked[1]))
                            = Some(<<acked>>)))

\* C5: after any sequence of successful create_queue, append_record,
\* truncate and delete_queue calls, MultiRecordLog::open on the same
\* directory rebuilds the in-memory state there was before closing: the same
\* queues, each with the same next_position and the same (position, payload)
\* pairs.
C5_ReplayRebuildsState ==
    (status = "down" /\ clean) =>
        Let(MultiRecordLog_open(disk), LAMBDA o :
            /\ o.res = "Ok"
            /\ View(o.mem) = Unwrap(pre))

\* The emptying truncate of queue q: at its last position.
LastPosition(mem, q) == next_position(mem.queues[q]) - 1

\* C6: next_position(q) of a queue that is not deleted never decreases over
\* calls and reopenings; in particular a truncate that empties q keeps it,
\* and so does a reopen that follows.
C6_NextPositionMonotonic ==
    /\ status = "up" =>
        \A q \in DOMAIN in_mem_queues.queues :
            ~is_empty(in_mem_queues.queues[q]) =>
                \A order \in TruncateOrders(in_mem_queues, q,
                                            LastPosition(in_mem_queues, q)) :
                    Let(MultiRecordLog_truncate(in_mem_queues, Io, q,
                            LastPosition(in_mem_queues, q), order), LAMBDA r :
                        /\ r.res = "Ok"
                        /\ MemQueues_next_position(r.mem, q)
                                = MemQueues_next_position(in_mem_queues, q)
                        /\ Let(MultiRecordLog_open(r.io.disk), LAMBDA o :
                                /\ o.res = "Ok"
                                /\ MemQueues_next_position(o.mem, q)
                                    = MemQueues_next_position(in_mem_queues, q)))
    /\ status = "down" =>
        Let(MultiRecordLog_open(disk), LAMBDA o :
            \A q \in DOMAIN Unwrap(pre) :
                /\ o.res = "Ok"
                /\ q \in DOMAIN o.mem.queues
                /\ next_position(o.mem.queues[q])
                        >= Unwrap(pre)[q].next_position)

\* C7: truncate(q1, p) leaves range(q2, ..) and next_position(q2) of every
\* other queue q2 as they were, in memory right after the call and after a
\* reopen that follows; the GC it runs deletes no file holding a retained
\* record of q2.
C7_TruncateIsolation ==
    status = "up" =>
        \A q1 \in QueueNames, p \in Positions :
            \A order \in TruncateOrders(in_mem_queues, q1, p) :
                Let(MultiRecordLog_truncate(in_mem_queues, Io, q1, p, order),
                    LAMBDA r :
                    r.res = "Ok" =>
                        \A q2 \in DOMAIN in_mem_queues.queues \ {q1} :
                            /\ q2 \in DOMAIN r.mem.queues
                            /\ View(r.mem)[q2] = View(in_mem_queues)[q2]
                            /\ FilesOf(r.mem.queues[q2]) \subseteq DOMAIN r.io.disk
                            /\ Let(MultiRecordLog_open(r.io.disk), LAMBDA o :
                                    /\ o.res = "Ok"
                                    /\ q2 \in DOMAIN o.mem.queues
                                    /\ View(o.mem)[q2]
                                            = View(in_mem_queues)[q2]))

\* C8: in every reachable state each WAL file that backs a record retained
\* by some queue exists on disk, and Directory::gc deletes a file only if no
\* record of a queue holds a handle to it and it is not the writer's file.
C8_RetainedFilesExist ==
    status = "up" =>
        /\ \A q \in DOMAIN in_mem_queues.queues :
                FilesOf(in_mem_queues.queues[q]) \subseteq DOMAIN disk
        /\ Let(Directory_gc(directory, disk, in_mem_queues.queues), LAMBDA g :
                \A f \in DOMAIN disk \ DOMAIN g.disk :
                    /\ record_handles(in_mem_queues.queues, f) = 0
                    /\ f # directory[Len(directory)])

\* A queue retains a record in a state where Directory::gc has a file to
\* delete.
C8_Witness ==
    /\ status = "up"
    /\ \E q \in DOMAIN in_mem_queues.queues : ~is_empty(in_mem_queues.queues[q])
    /\ Directory_gc(directory, disk, in_mem_queues.queues).disk # disk

C10_OnlyActiveFileLeft ==
    (status = "up" /\ record_writer_opt # None) =>
        /\ directory[Len(directory)]
                \in DOMAIN Directory_gc(directory, disk, in_mem_queues.queues).disk
        /\ \A q \in DOMAIN in_mem_queues.queues :
            (/\ ~is_empty(in_mem_queues.queues[q])
             /\ \A q2 \in DOMAIN in_mem_queues.queues \ {q} :
                    is_empty(in_mem_queues.queues[q2])) =>
                \A order \in TruncateOrders(in_mem_queues, q,
                                            LastPosition(in_mem_queues, q)) :
                    Let(MultiRecordLog_truncate(in_mem_queues, Io, q,
                            LastPosition(in_mem_queues, q), order), LAMBDA r :
                        /\ r.res = "Ok"
                        /\ DOMAIN r.io.disk = {r.io.chain[Len(r.io.chain)]}
                        /\ Head(r.io.chain) = r.io.chain[Len(r.io.chain)])

\* The last file of the directory ends in a record cut short.
TornTail(files) ==
    /\ DOMAIN files # {}
    /\ files[Max(DOMAIN files)] # <<>>
    /\ Let(files[Max(DOMAIN files)], LAMBDA entries :
            Len(entries[Len(entries)].payload) < entries[Len(entries)].len)

\* C11: when the last WAL file is cut in the middle of a record,
\* MultiRecordLog::open succeeds and replays every record written in full
\* before the cut: each queue is back with the records it held and a
\* next_position that is not lower.
C11_TornTailReopens ==
    (status = "down" /\ TornTail(disk)) =>
        Let(MultiRecordLog_open(disk), LAMBDA o :
            /\ o.res = "Ok"
            /\ \A q \in DOMAIN Unwrap(pre) :
                /\ q \in DOMAIN o.mem.queues
                /\ View(o.mem)[q].records = Unwrap(pre)[q].records)

\* C13: MultiRecordLog::open does not fail because of a corrupted block or
\* an undecodable or invalid record in a WAL file: whatever the files hold
\* when the log is down, opening them does not return Corruption.
C13_OpenSurvivesDamagedRecords ==
    status = "down" => MultiRecordLog_open(disk).res # "Corruption"

\* C14: create_queue on a queue that already exists returns AlreadyExists
\* before anything is written: the files and the in-memory queues are
\* unchanged, and a reopen of the files still succeeds with the queue's
\* records and next position unchanged.
C14_CreateExistingWritesNothing ==
    status = "up" =>
        \A q \in DOMAIN in_mem_queues.queues :
            Let(MultiRecordLog_create_queue(in_mem_queues, Io, q), LAMBDA r :
                /\ r.res = "AlreadyExists"
                /\ r.mem = in_mem_queues
                /\ r.io.disk = disk
                /\ MultiRecordLog_open(r.io.disk) = MultiRecordLog_open(disk))

\* C15: append_record(q, Some(p), x) returns Future when p > next_position(q)
\* and Past when p + 1 < next_position(q); in both cases nothing is written
\* to the log and the in-memory queues are unchanged, and a following append
\* at next_position(q) succeeds at that position.
C15_AppendFutureAndPast ==
    status = "up" =>
        \A q \in DOMAIN in_mem_queues.queues, p \in 0..(MaxWrites + 1),
           x \in Payloads :
            Let(next_position(in_mem_queues.queues[q]), LAMBDA next :
            Let(MultiRecordLog_append_record(in_mem_queues, Io, q, Some(p), x),
                LAMBDA r :
                (p > next \/ p + 1 < next) =>
                    /\ r.res = (IF p > next THEN "Future" ELSE "Past")
                    /\ r.val = None
                    /\ r.mem = in_mem_queues
                    /\ r.io = Io
                    /\ Let(MultiRecordLog_append_record(r.mem, r.io, q,
                                                        Some(next), x),
                           LAMBDA a : a.res = "Ok" /\ a.val = Some(next))))

\* A log is up with a queue holding two records, so that an append at
\* position 0 is refused as Past and an append at position 3 as Future.
C15_Witness ==
    /\ status = "up"
    /\ \E q \in DOMAIN in_mem_queues.queues :
        /\ next_position(in_mem_queues.queues[q]) = 2
        /\ MultiRecordLog_append_record(in_mem_queues, Io, q, Some(0),
                                        <<7>>).res = "Past"
        /\ MultiRecordLog_append_record(in_mem_queues, Io, q, Some(3),
                                        <<7>>).res = "Future"

\* C16: truncate(q, p) with p >= next_position(q) returns Future and a
\* truncate on a missing queue returns MissingQueue; in both cases no record
\* is written, no file is deleted and every queue is left unchanged.
C16_TruncateFutureAndMissing ==
    status = "up" =>
        \A q \in QueueNames, p \in 0..(MaxWrites + 1) :
            Let(MemQueues_next_position(in_mem_queues, q), LAMBDA np :
            (np = None \/ p >= Unwrap(np)) =>
                \A order \in Orders(EmptyQueues(in_mem_queues)) \cup {<<>>} :
                    Let(MultiRecordLog_truncate(in_mem_queues, Io, q, p, order),
                        LAMBDA r :
                        /\ r.res = (IF np = None THEN "MissingQueue"
                                    ELSE "Future")
                        /\ r.mem = in_mem_queues
                        /\ r.io = Io))

\* A log is up with one queue missing and one queue holding a record, so
\* that both refusals of truncate happen.
C16_Witness ==
    /\ status = "up"
    /\ \E q \in QueueNames :
        MultiRecordLog_truncate(in_mem_queues, Io, q, 0, <<>>).res
            = "MissingQueue"
    /\ \E q \in DOMAIN in_mem_queues.queues :
        /\ next_position(in_mem_queues.queues[q]) = 1
        /\ MultiRecordLog_truncate(in_mem_queues, Io, q, 1, <<>>).res = "Future"

\* C17: after delete_queue(q) returns Ok the queue is absent from the
\* in-memory queues, and reopening the files written so far succeeds with
\* the queue still absent.
C17_DeletedQueueStaysDeleted ==
    status = "up" =>
        \A q \in DOMAIN in_mem_queues.queues :
            Let(MultiRecordLog_delete_queue(in_mem_queues, Io, q), LAMBDA r :
                r.res = "Ok" =>
                    /\ q \notin DOMAIN r.mem.queues
                    /\ Let(MultiRecordLog_open(r.io.disk), LAMBDA o :
                           /\ o.res = "Ok"
                           /\ q \notin DOMAIN o.mem.queues))

(***************************************************************************)
(* A RecordWriter writes records to a file, which a RecordReader then      *)
(* reads from its start.                                                   *)
(***************************************************************************)
\* Records written per file.
MaxRecords == 3

\* The payload lengths tried: empty, short, leaving exactly HEADER_LEN
\* bytes in an empty block, leaving fewer, longer than what a frame of an
\* empty block takes, and longer than a block.
PayloadLens ==
    {0, 1, BLOCK_LEN - 2 * HEADER_LEN, BLOCK_LEN - 2 * HEADER_LEN + 1,
     BLOCK_LEN - HEADER_LEN + 2, BLOCK_LEN + 3}

\* The payloads tried for the record of index i: its bytes tell it from the
\* other records.
RecordPayloads(i) == {[k \in 1..n |-> 10 * i + (k % 10)] : n \in PayloadLens}

\* RecordWriter::write_record(payload) returns Ok.
WriteRecord(payload) ==
    /\ Len(written) < MaxRecords
    /\ \E w \in {RecordWriter_write_record(frame_writer, payload)} :
        /\ w.res = "Ok"
        /\ frame_writer' = w.fw
    /\ written' = Append(written, payload)
    /\ UNCHANGED <<log_vars, sync_vars, tail_vars, frame_vars, mem_vars>>

RecordNext == \E payload \in RecordPayloads(Len(written) + 1) : WriteRecord(payload)

RecordSpec == Init /\ [][RecordNext]_vars

\* C18: for any sequence of payloads written with RecordWriter::write_record
\* (empty ones, ones longer than a block, ones that leave exactly
\* HEADER_LEN or fewer free bytes in the block), successive
\* RecordReader::read_record calls on the file return exactly those payloads
\* in the same order and then Ok(None).
C18_WriteReadRoundTrip ==
    read_records(frame_writer.wrt, RecordReader_open) = all_some(written)

(***************************************************************************)
(* A Writer adds records to a file, which a Reader then reads from its     *)
(* start.                                                                  *)
(***************************************************************************)
\* Writer::add_record(record_payload).
AddRecord(record_payload) ==
    /\ Len(added) < MaxRecords
    /\ writer' = add_record(writer, record_payload)
    /\ added' = Append(added, record_payload)
    /\ UNCHANGED <<log_vars, record_vars, tail_vars, frame_vars, mem_vars>>

SyncNext ==
    \E record_payload \in RecordPayloads(Len(added) + 1) :
        AddRecord(record_payload)

SyncSpec == Init /\ [][SyncNext]_vars

\* C19: for any sequence of records added with Writer::add_record (empty
\* ones and ones spanning several blocks included), successive
\* Reader::read_record calls return each record in order, byte for byte,
\* and then Ok(None).
C19_AddReadRoundTrip ==
    Reader_read_records(writer.write, InnerReader_new, <<>>) = all_some(added)

RECURSIVE record_blocks(_, _)
\* For each of the payloads written from fw on, the blocks of the file that
\* hold a frame of the record.
record_blocks(fw, payloads) ==
    IF payloads = <<>> THEN <<>>
    ELSE
    Let(RecordWriter_write_record(fw, Head(payloads)).fw, LAMBDA fw1 :
    Let(Len(fw.wrt) + (IF available_num_bytes_in_block(fw) < HEADER_LEN
                       THEN available_num_bytes_in_block(fw) ELSE 0),
        LAMBDA first_byte :
        <<(first_byte \div BLOCK_LEN)..((Len(fw1.wrt) - 1) \div BLOCK_LEN)>>
            \o record_blocks(fw1, Tail(payloads))))

RECURSIVE is_subsequence(_, _)
\* The elements of a appear in b, in the order of a.
is_subsequence(a, b) ==
    IF a = <<>> THEN TRUE
    ELSE IF b = <<>> THEN FALSE
    ELSE IF Head(a) = Head(b) THEN is_subsequence(Tail(a), Tail(b))
    ELSE is_subsequence(a, Tail(b))

\* The elements of seq whose index is in keep, in order.
select_indices(seq, keep) ==
    Let([i \in 1..Len(seq) |-> Cardinality({j \in 1..i : j \in keep})],
        LAMBDA rank :
        [n \in 1..Cardinality(keep \cap (1..Len(seq))) |->
            seq[CHOOSE i \in keep \cap (1..Len(seq)) : rank[i] = n]])

\* The values a damaged byte b may take.
FlipValues(b) == {0, 3, 255, xor(b, 1)} \ {b}

\* C12: for any log written by RecordWriter and any single byte changed
\* inside one block, successive RecordReader::read_record calls still
\* return, in their original order, every record that has no frame in that
\* block.
C12_CorruptionContained ==
    Let(record_blocks(create_with_aligned_write(<<>>), written),
        LAMBDA blocks :
    \A i \in 1..Len(frame_writer.wrt) :
        \A v \in FlipValues(frame_writer.wrt[i]) :
            is_subsequence(
                all_some(select_indices(written,
                    {n \in 1..Len(written) :
                        ((i - 1) \div BLOCK_LEN) \notin blocks[n]})),
                read_records([frame_writer.wrt EXCEPT ![i] = v],
                             RecordReader_open)))

(***************************************************************************)
(* tests.rs, test_recordlog_in_file: one task writes the records           *)
(* 0..MaxRecordId through a RecordWriter whose writes may fail, making a   *)
(* new writer with append_to after a failure; another task reads the same  *)
(* file with a RecordReader as it grows.                                   *)
(***************************************************************************)
\* The writing task stops at this record id.
MaxRecordId == 6

\* Writes that fail.
MaxFaults == 1

RECURSIVE format_id(_)
\* format!("{}", record_id).as_bytes(): the decimal digits in ASCII.
format_id(id) ==
    IF id < 10 THEN <<48 + id>> ELSE format_id(id \div 10) \o <<48 + (id % 10)>>

RECURSIVE parse_digits(_, _)
\* The number the digits give after those that gave acc.
parse_digits(bytes, acc) ==
    IF bytes = <<>> THEN acc
    ELSE parse_digits(Tail(bytes), 10 * acc + Head(bytes) - 48)

\* std::str::from_utf8(record).unwrap().parse().unwrap(): None stands for
\* the panic of unwrap.
parse_id(bytes) ==
    IF bytes # <<>> /\ \A i \in 1..Len(bytes) : bytes[i] \in 48..57
    THEN Some(parse_digits(bytes, 0)) ELSE None

\* The RecordWriter of the writing task.
TailFrameWriter ==
    [wrt |-> tail_file, current_block_len |-> Unwrap(tail_writer)]

\* The writing task makes a RecordWriter: RecordWriter::append_to.
TailAppendTo ==
    /\ tail_writer = None
    /\ record_id < MaxRecordId
    /\ \E fw \in {RecordWriter_append_to(tail_file)} :
        /\ tail_file' = fw.wrt
        /\ tail_writer' = Some(fw.current_block_len)
    /\ UNCHANGED <<record_id, nfaults, record_reader, next_record_id,
                   reader_task>>
    /\ UNCHANGED <<log_vars, record_vars, sync_vars, frame_vars, mem_vars>>

\* write_record(record_id) returns Ok.
TailWriteRecord ==
    /\ tail_writer # None
    /\ record_id < MaxRecordId
    /\ \E w \in {RecordWriter_write_record(TailFrameWriter,
                                            format_id(record_id))} :
        /\ w.res = "Ok"
        /\ tail_file' = w.fw.wrt
        /\ tail_writer' = Some(w.fw.current_block_len)
    /\ record_id' = record_id + 1
    /\ UNCHANGED <<nfaults, record_reader, next_record_id, reader_task>>
    /\ UNCHANGED <<log_vars, record_vars, sync_vars, frame_vars, mem_vars>>

\* write_record(record_id) returns an error after k of its bytes, fewer than
\* all, reached the file (FaultyWriter); the task drops the writer and keeps
\* the record id.
TailWriteFails ==
    /\ tail_writer # None
    /\ record_id < MaxRecordId
    /\ nfaults < MaxFaults
    /\ \E w \in {RecordWriter_write_record(TailFrameWriter,
                                            format_id(record_id))} :
       \E k \in 0..(Len(w.fw.wrt) - Len(tail_file) - 1) :
            tail_file' = SubSeq(w.fw.wrt, 1, Len(tail_file) + k)
    /\ tail_writer' = None
    /\ nfaults' = nfaults + 1
    /\ UNCHANGED <<record_id, record_reader, next_record_id, reader_task>>
    /\ UNCHANGED <<log_vars, record_vars, sync_vars, frame_vars, mem_vars>>

\* One turn of the loop of the reading task: read_record on the file as it
\* is now, then the checks on the record id.
TailReadRecord ==
    /\ reader_task = "running"
    /\ \E r \in {RecordReader_read_record(tail_file, record_reader)} :
        /\ record_reader' = r.rr
        /\ IF r.res # "Some"
           THEN UNCHANGED <<next_record_id, reader_task>>
           ELSE \E id \in {parse_id(r.record)} :
                IF id = None
                THEN /\ reader_task' = "panicked"
                     /\ UNCHANGED next_record_id
                ELSE IF Unwrap(id) < next_record_id
                THEN UNCHANGED <<next_record_id, reader_task>>
                ELSE IF Unwrap(id) # next_record_id
                THEN /\ reader_task' = "assert_failed"
                     /\ UNCHANGED next_record_id
                ELSE /\ next_record_id' = next_record_id + 1
                     /\ reader_task' = IF next_record_id + 1 < MaxRecordId
                                       THEN "running" ELSE "done"
    /\ UNCHANGED <<tail_file, tail_writer, record_id, nfaults>>
    /\ UNCHANGED <<log_vars, record_vars, sync_vars, frame_vars, mem_vars>>

TailNext ==
    \/ TailAppendTo
    \/ TailWriteRecord
    \/ TailWriteFails
    \/ TailReadRecord

TailSpec == Init /\ [][TailNext]_vars

\* C20: with one task writing the records 0..n through a RecordWriter
\* whose writes fail at arbitrary points, the writer being made again with
\* append_to and the record retried, and one task reading the same file
\* with a RecordReader as it grows, the reader never returns a record id
\* greater than the id it expects, and every record that was written is
\* returned: once the writer has written all records and the reader has
\* read the whole file, the reader has got every id in order.
C20_TailReaderGetsEveryId ==
    /\ reader_task # "assert_failed"
    /\ (/\ record_id = MaxRecordId
        /\ RecordReader_read_record(tail_file, record_reader).res = "None")
       => reader_task = "done"

(***************************************************************************)
(* The record log when a write may fail: the calls of the facade on one    *)
(* queue, and append_record calls that return an io::Error.                *)
(***************************************************************************)
\* The bytes of an AppendRecord record; their number does not depend on the
\* position.
AppendRecordBytes(queue, payload) ==
    Record_serialize([type |-> "AppendRecord", position |-> 0,
                      queue |-> queue, payload |-> payload])

\* append_record(queue, position_opt, payload) returns Err(IoError) with k
\* bytes of its record in the file.
AppendIoError(queue, position_opt, payload) ==
    /\ status = "up"
    /\ \E r \in {MultiRecordLog_append_record(in_mem_queues, Io, queue,
                                                position_opt, payload)} :
       /\ r.res = "Ok"
       /\ IsSome(r.val)
       /\ \E k \in TornLens(AppendRecordBytes(queue, payload)) :
            Return(MultiRecordLog_append_record_io_error(
                        in_mem_queues, Io, queue, position_opt, payload, k),
                   appended, StaleAfterCall(in_mem_queues, Io))

FaultNext ==
    \/ CreateQueue(QueueA)
    \/ \E payload \in Payloads, position_opt \in PositionOpts :
            AppendRecord(QueueA, position_opt, payload)
    \/ \E payload \in Payloads, position_opt \in PositionOpts :
            AppendIoError(QueueA, position_opt, payload)
    \/ \E position \in Positions : Truncate(QueueA, position)
    \/ Kill
    \/ Open

FaultSpec == Init /\ [][FaultNext]_vars

\* C21: an append_record that returns an I/O error leaves the in-memory
\* queues as they were, whatever part of its record reached the file; and
\* when the process later stops, MultiRecordLog::open succeeds and
\* range(q, p..=p) yields, for every position p acknowledged with Ok(Some(p))
\* and still retained, the payload acknowledged for p, a retry after the
\* failure included.
C21_FailedAppendThenReplay ==
    /\ status = "up" =>
        \A payload \in Payloads, position_opt \in PositionOpts :
            \A k \in TornLens(AppendRecordBytes(QueueA, payload)) :
                MultiRecordLog_append_record_io_error(
                    in_mem_queues, Io, QueueA, position_opt, payload, k).mem
                        = in_mem_queues
    /\ (status = "down" /\ io_failed) =>
        \A q \in DOMAIN Unwrap(pre) :
            \A i \in 1..Len(Unwrap(pre)[q].records) :
                \E o \in {MultiRecordLog_open(disk)} :
                \E acked \in {Unwrap(pre)[q].records[i]} :
                    /\ o.res = "Ok"
                    /\ MultiRecordLog_range(o.mem, q, Included(acked[1]),
                                            Included(acked[1]))
                            = Some(<<acked>>)

\* C22: after any sequence of write_record calls of a RecordWriter, the
\* offset in the block that the FrameWriter tracks is the number of bytes
\* written so far modulo BLOCK_LEN, paddings included, and the frame that
\* the next write_frame writes, header and payload, lies within one block.
C22_FramesStayInBlock ==
    /\ frame_writer.current_block_len = Len(frame_writer.wrt) % BLOCK_LEN
    /\ \A n \in 0..max_writable_frame_length(frame_writer) :
        \E r \in {write_frame(frame_writer, FULL, zeroes(n))} :
            /\ r.res = "Ok"
            /\ (Len(r.fw.wrt) - (HEADER_LEN + n)) \div BLOCK_LEN
                    = (Len(r.fw.wrt) - 1) \div BLOCK_LEN

\* C23: MemQueue::truncate(p) on a queue that holds records, with p at or
\* beyond the position of its last record (the last position is the largest
\* the facade lets through), returns, leaves no record in the queue and
\* sets start_position to the next_position there was, which stays the
\* next_position.
C23_TruncateAtLastEmpties ==
    \A q \in DOMAIN in_mem_queues.queues :
        \E mq \in {in_mem_queues.queues[q]} :
            ~is_empty(mq) =>
                \A p \in (next_position(mq) - 1)..(next_position(mq) + 1) :
                    \E r \in {MemQueue_truncate(mq, p)} :
                        /\ r.res = "Ok"
                        /\ r.mq.record_metas = <<>>
                        /\ r.mq.concatenated_records = <<>>
                        /\ r.mq.start_position = next_position(mq)
                        /\ next_position(r.mq) = next_position(mq)

\* The items of a range that lie after position p.
after_position(items, p) ==
    SelectSeq(items, LAMBDA item : item[1] > p)

\* C24: MemQueue::truncate(p) with start_position <= p < last position
\* removes the records at positions <= p and no other: range(..) then
\* yields the records at positions p+1 to the last one with the payloads
\* they had, and next_position is unchanged.  With p < start_position the
\* queue is left as it is.
C24_TruncateRemovesPrefix ==
    \A q \in DOMAIN in_mem_queues.queues :
        \E mq \in {in_mem_queues.queues[q]} :
            \A p \in 0..(next_position(mq) - 2) :
                \E r \in {MemQueue_truncate(mq, p)} :
                    IF p < mq.start_position
                    THEN r.res = "Ok" /\ r.mq = mq
                    ELSE /\ r.res = "Ok"
                         /\ MemQueue_range(r.mq, Unbounded, Unbounded)
                                = after_position(
                                    MemQueue_range(mq, Unbounded, Unbounded), p)
                         /\ Len(r.mq.record_metas) = next_position(mq) - 1 - p
                         /\ next_position(r.mq) = next_position(mq)

\* A queue that a truncate has cut to its last two records, the first of
\* them with a payload: truncating it again at its start_position or below
\* it are the two cases of C24.
C24_Witness ==
    \E q \in DOMAIN in_mem_queues.queues :
        \E mq \in {in_mem_queues.queues[q]} :
            /\ mq.start_position >= 1
            /\ Len(mq.record_metas) = 2
            /\ mq.record_metas[2].start_offset > 0

\* The bounds a caller can give to range.
Bounds ==
    {Unbounded} \cup {Included(v) : v \in 0..(MaxWrites + 1)}
                \cup {Excluded(v) : v \in 0..(MaxWrites + 1)}

\* C25: for every queue and every pair of bounds, MemQueue::range yields
\* the retained records whose position lies within the bounds, all of them
\* and no other, in ascending order of position and with their payloads,
\* also when the start bound is below start_position or beyond the last
\* position.
C25_RangeYieldsWhatIsInBounds ==
    \A q \in DOMAIN in_mem_queues.queues :
        \E mq \in {in_mem_queues.queues[q]} :
        \E all \in {MemQueue_range(mq, Unbounded, Unbounded)} :
            \A start_bound \in Bounds, end_bound \in Bounds :
                MemQueue_range(mq, start_bound, end_bound)
                    = SelectSeq(all, LAMBDA item :
                            range_contains(start_bound, end_bound, item[1]))

\* C26: MemQueues::touch(queue, p) creates a queue that is not there, empty
\* and with next_position = p, and leaves the other queues alone; for a
\* queue that is there it returns Ok when the queue's next_position is p
\* and TouchError otherwise, and changes nothing either way.  The replay of
\* a Touch record gives Corruption exactly where touch gives TouchError.
C26_TouchCreatesOrChecks ==
    \A queue \in QueueNames, p \in 0..(MaxWrites + 1) :
        \E r \in {MemQueues_touch(in_mem_queues, queue, p)} :
        \E a \in {apply_record(in_mem_queues, FileNumber_default,
                               [type |-> "Touch", queue |-> queue,
                                position |-> p])} :
            /\ IF queue \in DOMAIN in_mem_queues.queues
               THEN /\ r.res = IF next_position(in_mem_queues.queues[queue]) = p
                               THEN "Ok" ELSE "TouchError"
                    /\ r.mem = in_mem_queues
               ELSE /\ r.res = "Ok"
                    /\ DOMAIN r.mem.queues
                            = DOMAIN in_mem_queues.queues \cup {queue}
                    /\ is_empty(r.mem.queues[queue])
                    /\ next_position(r.mem.queues[queue]) = p
                    /\ \A other \in DOMAIN in_mem_queues.queues :
                            r.mem.queues[other] = in_mem_queues.queues[other]
            /\ a.res = IF r.res = "TouchError" THEN "Corruption" ELSE "Ok"
            /\ a.mem = r.mem

\* A log just reopened, where the replay of a Touch record has created a
\* queue that is still empty, beside a queue that holds records: touch has
\* acted, and a further touch of either queue succeeds or fails with the
\* position.
C26_Witness ==
    /\ status = "up"
    /\ IsSome(pre)
    /\ \E q \in DOMAIN in_mem_queues.queues : is_empty(in_mem_queues.queues[q])
    /\ \E q \in DOMAIN in_mem_queues.queues :
            next_position(in_mem_queues.queues[q]) > 0

\* C27: the replay of a Truncate record that names a queue that is not
\* there is ignored: the queue is not created, and the queues that are
\* there are left as they are.
C27_TruncateMissingQueueIgnored ==
    \A queue \in QueueNames \ DOMAIN in_mem_queues.queues :
        \A p \in 0..(MaxWrites + 1) :
            \E a \in {apply_record(in_mem_queues, FileNumber_default,
                                   [type |-> "Truncate", queue |-> queue,
                                    position |-> p])} :
                /\ a.res = "Ok"
                /\ queue \notin DOMAIN a.mem.queues
                /\ a.mem.queues = in_mem_queues.queues

(***************************************************************************)
(* A file of frames, and the readers on it.  The file is written block by  *)
(* block by a FrameWriter that starts at the block boundary; then one of   *)
(* its bytes may be changed.                                               *)
(***************************************************************************)
\* Number of blocks of the file.
MaxBlocks == 2

\* The payload lengths of the frames of a block: one frame that leaves
\* fewer than HEADER_LEN bytes, which the writer pads, or two frames that
\* fill the block.
BlockShapes ==
    {<<BLOCK_LEN - HEADER_LEN - 6>>, <<1, BLOCK_LEN - 2 * HEADER_LEN - 1>>}

FrameTypes == {FULL, FIRST, MIDDLE, LAST}

\* The payload of the frame written as the number-th one: bytes no other
\* frame holds.
frame_payload(number, n) == [i \in 1..n |-> 16 * number + i]

RECURSIVE write_frames(_, _, _, _)
\* write_frame called for each frame of the block; the pad of a block that
\* has fewer than HEADER_LEN bytes left is the one write_frame would make
\* before the next frame.
write_frames(fw, types, shape, number) ==
    IF shape = <<>>
    THEN IF available_num_bytes_in_block(fw) < HEADER_LEN THEN pad_block(fw)
         ELSE fw
    ELSE write_frames(write_frame(fw, Head(types),
                                  frame_payload(number, Head(shape))).fw,
                      Tail(types), Tail(shape), number + 1)

RECURSIVE frames_written(_, _, _, _)
\* What write_frames wrote: for each frame its type, its payload and the
\* offset of its header in the file.
frames_written(types, shape, number, start) ==
    IF shape = <<>> THEN <<>>
    ELSE <<[frame_type |-> Head(types),
            payload |-> frame_payload(number, Head(shape)),
            start |-> start]>>
         \o frames_written(Tail(types), Tail(shape), number + 1,
                           start + HEADER_LEN + Head(shape))

\* One more block is written to the file.
AppendBlock(types, shape) ==
    /\ damage = 0
    /\ Len(frames_file) < MaxBlocks * BLOCK_LEN
    /\ frames_file' = frames_file
            \o write_frames(create_with_aligned_write(<<>>), types, shape,
                            Len(frames) + 1).wrt
    /\ frames' = frames \o frames_written(types, shape, Len(frames) + 1,
                                          Len(frames_file))
    /\ UNCHANGED damage
    /\ UNCHANGED <<log_vars, record_vars, sync_vars, tail_vars, mem_vars>>

\* The values the changed byte b may take: one that differs from b by one
\* bit, and the greatest one.
DamageValues(b) == {xor(b, 1), 255} \ {b}

\* One byte of the file is changed.
DamageByte(i, v) ==
    /\ damage = 0
    /\ i \in 1..Len(frames_file)
    /\ v \in DamageValues(frames_file[i])
    /\ frames_file' = [frames_file EXCEPT ![i] = v]
    /\ damage' = i
    /\ UNCHANGED frames
    /\ UNCHANGED <<log_vars, record_vars, sync_vars, tail_vars, mem_vars>>

FrameNext ==
    \/ \E shape \in BlockShapes :
        \E types \in [1..Len(shape) -> FrameTypes] : AppendBlock(types, shape)
    \/ \E i \in 1..(MaxBlocks * BLOCK_LEN), v \in 0..255 : DamageByte(i, v)

FrameSpec == Init /\ [][FrameNext]_vars

RECURSIVE read_frames(_, _)
\* What successive FrameReader::read_frame calls return from cursor on, up
\* to the first NotAvailable.
read_frames(data, cursor) ==
    Let(FrameReader_read_frame(data, cursor), LAMBDA f :
    IF f.res = "NotAvailable" THEN <<>>
    ELSE <<f>> \o read_frames(data, f.cursor))

\* The frames i to j that read_frame returned are one record: a FULL frame,
\* or a FIRST frame, MIDDLE frames and a LAST frame with nothing between.
is_record_run(fs, i, j) ==
    /\ \A m \in i..j : fs[m].res = "Ok"
    /\ \/ i = j /\ fs[i].frame_type = FULL
       \/ /\ i < j
          /\ fs[i].frame_type = FIRST
          /\ fs[j].frame_type = LAST
          /\ \A m \in (i + 1)..(j - 1) : fs[m].frame_type = MIDDLE

RECURSIVE concat_payloads(_, _, _)
concat_payloads(fs, i, j) ==
    IF i > j THEN <<>> ELSE fs[i].payload \o concat_payloads(fs, i + 1, j)

RECURSIVE records_of(_, _)
\* The records of the frames fs from the j-th one on: one for each frame
\* that ends a run, and the error for each Corruption.
records_of(fs, j) ==
    IF j > Len(fs) THEN <<>>
    ELSE (IF fs[j].res = "Corruption" THEN <<(<<"Corruption", <<>>>>)>>
          ELSE IF \E i \in 1..j : is_record_run(fs, i, j)
          THEN <<(<<"Some",
                    concat_payloads(fs, CHOOSE i \in 1..j :
                                            is_record_run(fs, i, j), j)>>)>>
          ELSE <<>>)
         \o records_of(fs, j + 1)

\* C28: the payloads RecordReader::read_record returns are the
\* concatenations of the payloads of one FULL frame, or of one FIRST frame,
\* the MIDDLE frames and the LAST frame that follow it with nothing
\* between, and of no other frames: a MIDDLE or LAST frame outside a record
\* is skipped, a FIRST or FULL frame drops the record begun, and the frames
\* read before a Corruption are not joined to those after it.
C28_RecordsAreFrameRuns ==
    read_records(frames_file, RecordReader_open)
        = records_of(read_frames(frames_file, 0), 1)

\* A file where read_frame gives a FIRST frame, a Corruption and then a
\* LAST frame.
C28_Witness ==
    /\ damage > 0
    /\ \E fs \in {read_frames(frames_file, 0)} :
        /\ Len(fs) >= 3
        /\ fs[1].res = "Ok" /\ fs[1].frame_type = FIRST
        /\ fs[2].res = "Corruption"
        /\ fs[3].res = "Ok" /\ fs[3].frame_type = LAST

\* Number of read_frame calls followed on one file.
MaxCalls == 6

\* The offset in the file of the header the next FrameReader::read_frame
\* looks at.
header_offset(data, cursor) ==
    IF next_block(cursor) - cursor < HEADER_LEN /\ Len(data) > next_block(cursor)
    THEN next_block(cursor)
    ELSE cursor

\* The offset in the file of the header the next InnerReader::read_frame
\* looks at.
InnerReader_header_offset(data, r) ==
    Let(IF available_num_bytes(r) < HEADER_LEN THEN fill_block_buffer(data, r)
        ELSE r, LAMBDA r1 :
        r1.read_pos - r1.current_block_len + r1.in_block_offset)

RECURSIVE InnerReader_read_frames(_, _, _)
\* The first n InnerReader::read_frame calls from r on, up to the first
\* Ok(None): for each call its result f and the reader `before` it.
InnerReader_read_frames(data, r, n) ==
    IF n = 0 THEN <<>>
    ELSE Let(InnerReader_read_frame(data, r, <<>>), LAMBDA f :
         IF f.res = "None" THEN <<>>
         ELSE <<[before |-> r, f |-> f]>>
              \o InnerReader_read_frames(data, f.r, n - 1))

\* C29: when read_frame returns Corruption, for an invalid type byte, a
\* length that overflows the block or a wrong checksum, the rest of the
\* block is dropped: the next read_frame finds nothing or looks at the
\* first header of the following block, not at a later frame of the block
\* and not at the same bytes again.  This is stated for FrameReader and for
\* InnerReader.
C29_CorruptionDropsBlock ==
    /\ \E fs \in {read_frames(frames_file, 0)} :
        \A k \in 1..Len(fs) :
            \E cursor \in {IF k = 1 THEN 0 ELSE fs[k - 1].cursor} :
                fs[k].res = "Corruption" =>
                    \/ FrameReader_read_frame(frames_file, fs[k].cursor).res
                            = "NotAvailable"
                    \/ header_offset(frames_file, fs[k].cursor)
                            = next_block(header_offset(frames_file, cursor))
    /\ \E calls \in {InnerReader_read_frames(frames_file, InnerReader_new,
                                             MaxCalls)} :
        \A k \in 1..Len(calls) :
            calls[k].f.res = "Corruption" =>
                \/ InnerReader_read_frame(frames_file, calls[k].f.r, <<>>).res
                        = "None"
                \/ InnerReader_header_offset(frames_file, calls[k].f.r)
                        = next_block(InnerReader_header_offset(
                                        frames_file, calls[k].before))

\* The byte at offset d - 1 of the file is one of the checksum or of the
\* payload of the frame fr.
in_checksum_or_payload(fr, d) ==
    \/ fr.start < d /\ d <= fr.start + 4
    \/ fr.start + HEADER_LEN < d /\ d <= fr.start + HEADER_LEN + Len(fr.payload)

\* The byte at offset d - 1 of the file is one of the length of the frame fr.
in_length(fr, d) == fr.start + 4 < d /\ d <= fr.start + 6

\* The length the header of the frame fr declares in the file.
declared_len(data, fr) == from_le_bytes(SubSeq(data, fr.start + 5, fr.start + 6))

\* What read_frame is to return, call after call, when the m-th frame
\* written fails its checksum: Corruption for it, and every other frame as
\* it was written.
all_but(m) ==
    [k \in 1..Len(frames) |->
        IF k = m THEN <<"Corruption", 0, <<>>>>
        ELSE <<"Ok", frames[k].frame_type, frames[k].payload>>]

\* What the FrameReader::read_frame calls return on the file.
FrameReader_results ==
    Let(read_frames(frames_file, 0), LAMBDA fs :
        [k \in 1..Len(fs) |-> <<fs[k].res, fs[k].frame_type, fs[k].payload>>])

\* What the InnerReader::read_frame calls return on the file, each with an
\* empty record_buffer.
InnerReader_results ==
    Let(InnerReader_read_frames(frames_file, InnerReader_new, MaxCalls),
        LAMBDA calls :
        [k \in 1..Len(calls) |->
            <<IF calls[k].f.res = "Some" THEN "Ok" ELSE calls[k].f.res,
              calls[k].f.frame_type, calls[k].f.record_buffer>>])

prefix(data, l) == SubSeq(data, 1, l)

\* The offset after the last byte of the frame fr.
frame_end(fr) == fr.start + HEADER_LEN + Len(fr.payload)

\* The cursor of a FrameReader after the read_frame calls that returned the
\* frames fs.
cursor_after(fs) == IF fs = <<>> THEN 0 ELSE fs[Len(fs)].cursor

\* The InnerReader after the read_frame calls `calls`.
reader_after(calls) ==
    IF calls = <<>> THEN InnerReader_new ELSE calls[Len(calls)].f.r

\* C31: a reader that has read the frames before the m-th one from a file
\* that ends inside the m-th frame, be it in its header or in its payload,
\* gets NotAvailable (Ok(None) from InnerReader) from read_frame, and gets
\* it again from a second call, which leaves the reader as the first call
\* left it, at the header of the m-th frame and with the record buffer it
\* had; when the rest of the file is there, the next call returns the m-th
\* frame with the type and the payload it was written with.
C31_PartialTailNotConsumed ==
    damage = 0 =>
    \A m \in 1..Len(frames) : \A l \in frames[m].start..(frame_end(frames[m]) - 1) :
        /\ \E fs \in {read_frames(prefix(frames_file, l), 0)} :
           \E f1 \in {FrameReader_read_frame(prefix(frames_file, l),
                                             cursor_after(fs))} :
           \E f2 \in {FrameReader_read_frame(prefix(frames_file, l),
                                             f1.cursor)} :
           \E f3 \in {FrameReader_read_frame(frames_file, f2.cursor)} :
                /\ Len(fs) = m - 1
                /\ f1.res = "NotAvailable"
                /\ f2 = f1
                /\ header_offset(frames_file, f2.cursor) = frames[m].start
                /\ f3.res = "Ok"
                /\ f3.frame_type = frames[m].frame_type
                /\ f3.payload = frames[m].payload
        /\ \E calls \in {InnerReader_read_frames(prefix(frames_file, l),
                                                 InnerReader_new, MaxCalls)} :
           \E f1 \in {InnerReader_read_frame(prefix(frames_file, l),
                                             reader_after(calls), <<99>>)} :
           \E f2 \in {InnerReader_read_frame(prefix(frames_file, l),
                                             f1.r, f1.record_buffer)} :
           \E f3 \in {InnerReader_read_frame(frames_file, f2.r, <<>>)} :
                /\ Len(calls) = m - 1
                /\ f1.res = "None" /\ f1.record_buffer = <<99>>
                /\ f2 = f1
                /\ InnerReader_header_offset(frames_file, f2.r)
                        = frames[m].start
                /\ f3.res = "Some"
                /\ f3.frame_type = frames[m].frame_type
                /\ f3.record_buffer = frames[m].payload

\* A file of two blocks; the reader that stops inside the payload of the
\* first frame of the second block has loaded a part of that block.
C31_Witness ==
    /\ damage = 0
    /\ Len(frames_file) = 2 * BLOCK_LEN
    /\ \E m \in 2..Len(frames) :
        /\ frames[m].start = BLOCK_LEN
        /\ \E calls \in {InnerReader_read_frames(
                            prefix(frames_file, frames[m].start + HEADER_LEN + 1),
                            InnerReader_new, MaxCalls)} :
           \E f1 \in {InnerReader_read_frame(
                            prefix(frames_file, frames[m].start + HEADER_LEN + 1),
                            reader_after(calls), <<>>)} :
                /\ f1.res = "None"
                /\ f1.r.current_block_len = HEADER_LEN + 1
                /\ InnerReader_read_frame(frames_file, f1.r, <<>>).res = "Some"

(***************************************************************************)
(* A file that ends inside a block and is written again through           *)
(* RecordWriter::append_to.                                                *)
(***************************************************************************)
RECURSIVE write_records(_, _)
\* write_record called for each of the payloads.
write_records(fw, payloads) ==
    IF payloads = <<>> THEN fw
    ELSE write_records(RecordWriter_write_record(fw, Head(payloads)).fw,
                       Tail(payloads))

\* The records the new writer writes: one record, two records that fit in
\* a block, and a record that leaves fewer than HEADER_LEN bytes in its
\* block followed by one that takes more than a block.
NewRecords ==
    {<< <<91>> >>,
     << <<91>>, <<92, 93>> >>,
     << zeroes(BLOCK_LEN - 2 * HEADER_LEN + 1), zeroes(BLOCK_LEN - HEADER_LEN + 2) >>}

\* Number of read_record calls that returned Corruption.
corruptions(rs) == Cardinality({i \in 1..Len(rs) : rs[i][1] = "Corruption"})

\* C32: RecordWriter::append_to on a file whose length l is not a
\* multiple of BLOCK_LEN writes zero bytes up to the next block boundary;
\* a RecordReader of the file the new writer then wrote returns
\* Corruption once for the block the file ended in, and then the records
\* of the new writer, all of them and in order.
C32_AppendToPadsTornFile ==
    \A l \in 1..Len(frame_writer.wrt) : \A new \in NewRecords :
        l % BLOCK_LEN # 0 =>
        \E fw \in {RecordWriter_append_to(prefix(frame_writer.wrt, l))} :
        \E rs \in {read_records(write_records(fw, new).wrt, RecordReader_open)} :
        \E old \in {read_records(prefix(fw.wrt, l - (l % BLOCK_LEN)),
                                 RecordReader_open)} :
            /\ fw.current_block_len = 0
            /\ fw.wrt = prefix(frame_writer.wrt, l)
                            \o zeroes(BLOCK_LEN - (l % BLOCK_LEN))
            /\ corruptions(rs) = corruptions(old) + 1
            /\ Len(rs) > Len(new)
            /\ SubSeq(rs, Len(rs) - Len(new), Len(rs))
                    = <<(<<"Corruption", <<>>>>)>> \o all_some(new)

(***************************************************************************)
(* rolling/reader.rs: the files RecordLogReader loads.                     *)
(***************************************************************************)
RECURSIVE files_loaded(_, _)
\* The files the successive RecordLogReader::load_next_file calls open,
\* from the queue `files` and the reader's current_file_number, up to the
\* first call whose assertion fails.
files_loaded(files, current_file_number) ==
    IF files = <<>> THEN <<>>
    ELSE IF ~(Head(files) > current_file_number) THEN <<>>
    ELSE <<Head(files)>> \o files_loaded(Tail(files), Head(files))

\* C33: a RecordLogReader opened on the directory reads its files in
\* strictly increasing order of their numbers, and each file it loads has
\* a number greater than the reader's current file number, which is
\* FileNumber::default() at first: the assertion of load_next_file holds
\* and every file of the directory is loaded, whatever the directory
\* holds.
C33_FilesReadInIncreasingOrder ==
    \E files \in {Directory_open(disk)} :
        /\ \A i, j \in 1..Len(files) : i < j => files[i] < files[j]
        /\ files_loaded(files, FileNumber_default) = files

\* C34: when delete_queue(queue) returns Ok, the directory has been
\* collected after the queue was removed: a file that is not the active
\* one and that was backing records of that queue and of no other queue is
\* no longer on disk.
C34_DeleteQueueCollectsFiles ==
    status = "up" =>
    \A queue \in DOMAIN in_mem_queues.queues :
        \E r \in {MultiRecordLog_delete_queue(in_mem_queues, Io, queue)} :
            r.res = "Ok" =>
            \A f \in DOMAIN disk :
                (/\ f # r.io.chain[Len(r.io.chain)]
                 /\ record_handles(in_mem_queues.queues, f) > 0
                 /\ record_handles(MapDel(in_mem_queues.queues, queue), f) = 0)
                => f \notin DOMAIN r.io.disk

(***************************************************************************)
(* A MemQueues that is called directly, as the tests of mem/queues.rs and  *)
(* the replay of a log do: the positions are any u64, the file numbers do  *)
(* not decrease.                                                           *)
(***************************************************************************)
\* Records appended to the queues of the MemQueues, at most.
MaxMemRecords == 4

\* The greatest file number given to append_record.
MaxMemFiles == 3

\* The positions given to append_record and truncate: the least ones, the
\* greatest i64, the one after it, and the greatest u64.
MemPositions == {0, 1, I64_MAX, I64_MAX + 1, U64_MAX}

\* MemQueues::create_queue(queue).
MemCreateQueue(queue) ==
    /\ mem_queues' = MemQueues_create_queue(mem_queues, queue).mem
    /\ UNCHANGED <<mem_file_number, mem_appends>>
    /\ UNCHANGED <<log_vars, record_vars, sync_vars, tail_vars, frame_vars>>

\* MemQueues::append_record(queue, file_number, position_opt, record); the
\* next position of a queue stays a u64.
MemAppendRecord(queue, position_opt, record) ==
    /\ mem_appends < MaxMemRecords
    /\ \E r \in {MemQueues_append_record(mem_queues, queue, mem_file_number,
                                         position_opt, record)} :
        /\ next_position(r.mem.queues[queue]) <= U64_MAX
        /\ mem_queues' = r.mem
        /\ mem_appends' = IF r.res = "OkSome" THEN mem_appends + 1
                          ELSE mem_appends
    /\ UNCHANGED mem_file_number
    /\ UNCHANGED <<log_vars, record_vars, sync_vars, tail_vars, frame_vars>>

\* MemQueues::truncate(queue, position), when it does not panic.
MemTruncate(queue, position) ==
    /\ \E r \in {MemQueues_truncate(mem_queues, queue, position)} :
        /\ r.res # "Panic"
        /\ mem_queues' = r.mem
    /\ UNCHANGED <<mem_file_number, mem_appends>>
    /\ UNCHANGED <<log_vars, record_vars, sync_vars, tail_vars, frame_vars>>

\* The writer rolls to the next file: the records appended from now on
\* have the next file number.
MemNextFile ==
    /\ mem_file_number < MaxMemFiles
    /\ mem_file_number' = mem_file_number + 1
    /\ UNCHANGED <<mem_queues, mem_appends>>
    /\ UNCHANGED <<log_vars, record_vars, sync_vars, tail_vars, frame_vars>>

MemNext ==
    \/ \E queue \in QueueNames : MemCreateQueue(queue)
    \/ \E queue \in QueueNames, record \in {<<7>>} :
       \E position_opt \in {None} \cup {Some(p) : p \in MemPositions} :
            MemAppendRecord(queue, position_opt, record)
    \/ \E queue \in QueueNames, position \in MemPositions :
            MemTruncate(queue, position)
    \/ MemNextFile

MemSpec == Init /\ [][MemNext]_vars

\* The checks of MultiRecordLog::append_record on a supplied position
\* (lines 99-107): the error or the early return, "Append" when the call
\* goes on to write the record, "Panic" when position + 1 overflows in a
\* build with overflow checks.
position_check(position, next_position_, overflow_checks) ==
    IF position > next_position_ THEN "Future"
    ELSE IF overflow_checks /\ position + 1 > U64_MAX THEN "Panic"
    ELSE IF (position + 1) % 2^U64_BITS = next_position_ THEN "OkNone"
    ELSE IF position < next_position_ THEN "Past"
    ELSE "Append"

\* How the claim classifies the position given to an append.
position_class(position, next_position_) ==
    IF position = next_position_ THEN "Append"
    ELSE IF position + 1 = next_position_ THEN "OkNone"
    ELSE IF position < next_position_ THEN "Past"
    ELSE "Future"

\* C35: for a queue that holds records, whatever u64 its next position is
\* and whatever u64 position is supplied, in a build with overflow checks
\* and in one without, MemQueue::append_record appends the record when the
\* position is the next position, returns Ok(None) when it is the one
\* before, Past when it is smaller and Future when it is greater, and the
\* checks of MultiRecordLog::append_record classify it the same way;
\* neither panics.
C35_PositionClassifiedOverU64 ==
    \A queue \in DOMAIN mem_queues.queues :
        ~is_empty(mem_queues.queues[queue]) =>
        \A position \in 0..U64_MAX, overflow_checks \in BOOLEAN :
            \E mq \in {mem_queues.queues[queue]} :
            \E r \in {MemQueue_append_record_build(mq, mem_file_number,
                            Some(position), <<7>>, overflow_checks)} :
            \E class \in {position_class(position, next_position(mq))} :
                /\ position_check(position, next_position(mq), overflow_checks)
                        = class
                /\ r.res = CASE class = "Append" -> "OkSome"
                             [] class = "OkNone" -> "OkNone"
                             [] OTHER -> class
                /\ class = "Append" =>
                        /\ next_position(r.mq) = next_position(mq) + 1
                        /\ MemQueue_range(r.mq, Included(position),
                                          Included(position))
                                = <<(<<position, <<7>>>>)>>

(***************************************************************************)
(* What RecordWriter asks of the file, in order: "write" when the frames   *)
(* of a record are handed to the buffered writer, "flush", and "sync" for  *)
(* an fsync.                                                               *)
(***************************************************************************)
\* The flush and the sync that end write_single_record (lines 78-81), and
\* that end write_record and write_record_batch again.
flush_and_sync(sync_mode) ==
    <<"flush">> \o (IF sync_mode THEN <<"sync">> ELSE <<>>)

RECURSIVE write_record_batch_loop(_, _, _, _)
\* The loop of RecordWriter::write_record_batch from one payload on:
\* [res, fw, events].
write_record_batch_loop(fw, payloads, sync_mode, events) ==
    IF payloads = <<>> THEN [res |-> "Ok", fw |-> fw, events |-> events]
    ELSE Let(write_single_record(fw, Head(payloads)), LAMBDA w :
         IF w.res # "Ok"
         THEN [res |-> w.res, fw |-> w.fw, events |-> events \o <<"write">>]
         ELSE write_record_batch_loop(w.fw, Tail(payloads), sync_mode,
                    events \o <<"write">> \o flush_and_sync(sync_mode)))

\* RecordWriter::write_record_batch(payloads): [res, fw, events].
write_record_batch(fw, payloads, sync_mode) ==
    Let(write_record_batch_loop(fw, payloads, sync_mode, <<>>), LAMBDA w :
    IF w.res # "Ok" THEN w
    ELSE [w EXCEPT !.events = @ \o flush_and_sync(sync_mode)])

\* The batches given to write_record_batch: of no, one, two and three
\* records.
Batches ==
    {<<>>, << <<91>> >>, << <<91>>, <<92, 93>> >>,
     << <<91>>, zeroes(BLOCK_LEN), <<94>> >>}

\* C36: with sync_mode, write_record_batch does not sync before it has
\* written every record of the batch, and it syncs once they are written;
\* without sync_mode it does not sync at all.  The bytes it writes are the
\* ones write_record writes for the same payloads.
C36_BatchSyncsAfterLastRecord ==
    \A payloads \in Batches, sync_mode \in BOOLEAN :
        \E w \in {write_record_batch(frame_writer, payloads, sync_mode)} :
            /\ w.res = "Ok"
            /\ w.fw = write_records(frame_writer, payloads)
            /\ ~sync_mode => \A i \in DOMAIN w.events : w.events[i] # "sync"
            /\ sync_mode =>
                /\ w.events[Len(w.events)] = "sync"
                /\ \A i, j \in DOMAIN w.events :
                        w.events[i] = "sync" /\ w.events[j] = "write" => j < i

(***************************************************************************)
(* One byte of a log written by RecordWriter::write_record is changed, and *)
(* the log is read by RecordReader::read_record.                           *)
(***************************************************************************)
\* The values a byte b is changed to: its lowest bit flipped, all bits
\* set, and the bytes of the four frame types.
ChangedValues(b) == ({xor(b, 1), 255} \cup FrameTypes) \ {b}

\* The payloads that the calls of RecordReader::read_record return as
\* Ok(Some(payload)), until one returns Ok(None).
payloads_read(data) ==
    Let(read_records(data, RecordReader_open), LAMBDA rs :
        {rs[k][2] : k \in {k \in DOMAIN rs : rs[k][1] = "Some"}})

\* C37: whatever byte of a log written by write_record is changed, and
\* whether it is a byte of a checksum, of a length, of a frame type or of a
\* payload, every payload that RecordReader::read_record returns from the
\* changed log is one that was passed to write_record.
C37_NoFabricatedRecord ==
    \A i \in 1..Len(frame_writer.wrt) :
        \A v \in ChangedValues(frame_writer.wrt[i]) :
            payloads_read([frame_writer.wrt EXCEPT ![i] = v])
                \subseteq {written[k] : k \in DOMAIN written}

(***************************************************************************)
(* The file numbers MemQueues::truncate compares and returns.              *)
(***************************************************************************)
\* The files that back the records the queues hold.
backing_files(queues) ==
    {queues[q].record_metas[i].file_number :
        <<q, i>> \in {<<q, i>> \in (DOMAIN queues) \X (1..MaxMemRecords + 1) :
                        i <= Len(queues[q].record_metas)}}

\* C38: after any appends with file numbers that do not decrease and any
\* truncations, lowest_retained_file_number, when it is set, is at most the
\* first retained file of every queue that holds a record; and a
\* MemQueues::truncate of any queue at any position, where the truncation
\* of the queue itself does not panic, fails neither of its two
\* assertions, returns RemoveFiles(..m) only with m at most every file
\* that backs a record some queue still holds, and returns RemoveAllFiles
\* only when no queue holds a record.
C38_TruncationKeepsBackingFiles ==
    /\ mem_queues.lowest_retained_file_number # None =>
            \A f \in retained_files(mem_queues.queues) :
                Unwrap(mem_queues.lowest_retained_file_number) <= f
    /\ mem_queues.lowest_retained_file_number = None =>
            backing_files(mem_queues.queues) = {}
    /\ \A queue \in QueueNames, position \in 0..U64_MAX :
        \E t \in {MemQueue_truncate(
                    get_or_create_queue_mut(mem_queues.queues, queue)[queue],
                    position)} :
        \E r \in {MemQueues_truncate(mem_queues, queue, position)} :
            t.res = "Ok" =>
                /\ r.res # "Panic"
                /\ r.res = "RemoveFiles" =>
                    /\ \A f \in backing_files(r.mem.queues) : r.up_to <= f
                    /\ r.mem.lowest_retained_file_number = Some(r.up_to)
                    /\ r.up_to > Unwrap(mem_queues.lowest_retained_file_number)
                /\ r.res = "RemoveAllFiles" =>
                    backing_files(r.mem.queues) = {}
                /\ r.res = "NoTruncation"
                        /\ mem_queues.lowest_retained_file_number # None =>
                    Unwrap(mem_queues.lowest_retained_file_number)
                        \in backing_files(r.mem.queues)

\* A truncation has returned RemoveFiles(..2): a queue was emptied of its
\* records of file 1 while another queue holds a record of file 2.
C38_Witness ==
    /\ mem_queues.lowest_retained_file_number = Some(2)
    /\ \E q \in DOMAIN mem_queues.queues :
        /\ is_empty(mem_queues.queues[q])
        /\ mem_queues.queues[q].start_position > 0
    /\ \E q \in DOMAIN mem_queues.queues :
        /\ ~is_empty(mem_queues.queues[q])
        /\ mem_queues.queues[q].record_metas[1].file_number = 2

(***************************************************************************)
(* A truncate whose Truncate record cannot be written.                     *)
(***************************************************************************)
\* MultiRecordLog::truncate(queue, position) when the write_record of
\* lines 144-146 returns an io::Error with nothing written: the `?`
\* returns after MemQueues::truncate (line 143) has run.  A call that
\* returns before line 143 does no I/O and is the call without the error.
MultiRecordLog_truncate_io_error(mem, io, queue, position) ==
    Let(MemQueues_next_position(mem, queue), LAMBDA next_position_opt :
    IF next_position_opt = None
    THEN [res |-> "MissingQueue", mem |-> mem, io |-> io]
    ELSE IF position >= Unwrap(next_position_opt)
    THEN [res |-> "Future", mem |-> mem, io |-> io]
    ELSE
    Let(MemQueues_truncate(mem, queue, position), LAMBDA t :
    IF t.res = "Panic" THEN [res |-> "Panic", mem |-> t.mem, io |-> io]
    ELSE [res |-> "IoError", mem |-> t.mem, io |-> io]))

\* C39: a truncate that returns an I/O error from the write of its
\* Truncate record leaves the in-memory queues as they were before the
\* call: range yields the same records, those at positions up to the
\* position of the truncate included.
C39_FailedTruncateKeepsQueue ==
    status = "up" =>
        \A position \in Positions :
            \E r \in {MultiRecordLog_truncate_io_error(in_mem_queues, Io,
                                                       QueueA, position)} :
                r.res = "IoError" =>
                    /\ r.mem = in_mem_queues
                    /\ MultiRecordLog_range(r.mem, QueueA, Unbounded, Unbounded)
                        = MultiRecordLog_range(in_mem_queues, QueueA,
                                               Unbounded, Unbounded)

(***************************************************************************)
(* The FileNumber chain of the Directory against the files on disk.        *)
(***************************************************************************)
\* Directory::new_file() when the open with create_new of lines 137-141
\* returns an io::Error: the `?` returns after set_last_file_number
\* (line 135) has run, and no file is created.
Directory_new_file_io_error(chain, files) ==
    [Directory_new_file(chain, files) EXCEPT !.res = "IoError", !.disk = files]

\* The chain names exactly the wal-* files on disk, in increasing order.
chain_names_files(chain, files) == chain = sorted(DOMAIN files)

\* C40: while the log is open the chain of the Directory names exactly the
\* files on disk, in increasing order; it still does after a gc, which
\* ends without trying to delete a file that is not there, after a
\* new_file, which takes a number greater than that of every file, and
\* after a new_file that returns an I/O error.
C40_ChainNamesFilesOnDisk ==
    status = "up" =>
        /\ chain_names_files(directory, disk)
        /\ \E g \in {Directory_gc(directory, disk, in_mem_queues.queues)} :
            /\ g.res = "Ok"
            /\ chain_names_files(g.chain, g.disk)
        /\ \E d \in {Directory_new_file(directory, disk)} :
            /\ d.res = "Ok"
            /\ chain_names_files(d.chain, d.disk)
            /\ \A f \in DOMAIN disk : f < d.chain[Len(d.chain)]
        /\ \E e \in {Directory_new_file_io_error(directory, disk)} :
            chain_names_files(e.chain, e.disk)

====
